---- MODULE Spec2Model ----
(***************************************************************************)
(* Vertical-autoscaling control loop of the Heat orchestration adapter:    *)
(* alert validation (validator.py), scaling decision (validator.py), the   *)
(* resize executor with its cooldown gate (heat_client.py), the alert      *)
(* pipeline and the policy administration of the Flask application         *)
(* (adapter.py, api/routes.py).                                            *)
(*                                                                         *)
(* Numbers.  Percentages (cpu, ram, thresholds) are Python floats; they    *)
(* are modelled as fixed-point numbers with denominator Unit, so Pct(80)   *)
(* is 80.0 and Pct(80) + 1 is 80 + 1/Unit.  Times are whole seconds.       *)
(* Strings are sequences of one-character strings, so that str.strip() is  *)
(* computed and not assumed.                                               *)
(***************************************************************************)
EXTENDS Integers, Sequences, FiniteSets, TLC

VARIABLES
    now,        \* time.time(), in seconds
    _state,     \* heat_client._state
    state,      \* adapter.state (vm, policies, logs, stats)
    state_lock, \* adapter.state_lock: "free" or the thread holding it
    pc,         \* position of each alert-handling thread in recevoir_alerte
    loc,        \* local variables of each alert-handling thread
    alertes,    \* number of alerts received so far (bounded by MaxAlerts)
    admin,      \* the administrative request in progress (policy routes)
    va_data,    \* valider_alerte under test: its argument
    va_result,  \* valider_alerte under test: its result
    fn_args,    \* a decision or gate function under test: its arguments
    fn_result,  \* a decision or gate function under test: its result
    _tentatives_connexion, \* auth._tentatives_connexion: the failed logins of each IP
    connexion,  \* the last call of connecter_utilisateur: arguments and result
    session,    \* flask.session of the browser that calls the protected routes
    environ     \* os.environ: the variables set when the process was started

vars == <<now, _state, state, state_lock, pc, loc, alertes, admin, va_data, va_result, fn_args, fn_result,
                   _tentatives_connexion, connexion, session, environ>>

----------------------------------------------------------------------------
\* Bounds of the model

\* denominator of the fixed-point percentages
Unit == 4
\* the value of time.time() when the process starts serving
StartTime == 1000
\* the clock is observed every TickSeconds seconds
TickSeconds == 60
\* the clock stops after MaxTick observations
MaxTick == 3
\* total number of alerts received
MaxAlerts == 2
\* total number of administrative requests
MaxAdminOps == 2

\* the login clock is observed every PasConnexion seconds
PasConnexion == 100
\* the login clock stops after MaxPas observations
MaxPas == 4
\* total number of login attempts
MaxConnexions == 6

\* total number of administrative requests sent while alerts are served
MaxRequetes == 1

\* the session clock is observed every PasSession seconds
PasSession == 3600
\* the session clock stops after MaxPasSession observations
MaxPasSession == 3

Pct(n) == n * Unit

----------------------------------------------------------------------------
\* Program constants

\* os.environ with no variable of the program set
EnvironVide == {}

\* int(os.getenv(cle, defaut)), os.environ being a set of <<name, value>>
getenv_int(cle, defaut) ==
    IF \E e \in environ : e[1] = cle
    THEN (CHOOSE e \in environ : e[1] = cle)[2]
    ELSE defaut

\* heat_client.py: COOLDOWN_SECONDS = int(os.getenv("COOLDOWN_SECONDS", "120"))
COOLDOWN_SECONDS == getenv_int("COOLDOWN_SECONDS", 120)
\* heat_client.py: _attendre_statut(serveur, "VERIFY_RESIZE", timeout=120)
POLL_TIMEOUT == 120
\* heat_client.py: time.sleep(5) in _attendre_statut
POLL_SLEEP == 5
\* heat_client.py: time.sleep(1) in _simuler_resize
SIM_SLEEP == 1
\* adapter.py: if len(state["logs"]) > 50
LOGS_MAX == 50

\* validator.py: SECRET_TOKEN = os.getenv("SECRET_TOKEN", "heat-secret-token")
SECRET_TOKEN ==
    <<"h","e","a","t","-","s","e","c","r","e","t","-","t","o","k","e","n">>

\* validator.py: RULES
RULES ==
    [ cpu_min |-> Pct(0), cpu_max |-> Pct(100),
      ram_min |-> Pct(0), ram_max |-> Pct(100),
      max_age_seconds |-> 60,
      required_fields |-> <<"source", "token", "cpu", "ram", "timestamp">> ]

----------------------------------------------------------------------------
\* JSON values of an alert payload (request.get_json())

\* a JSON number
NumV(n) == [t |-> "num", n |-> n, s |-> <<>>]
\* a JSON string
StrV(s) == [t |-> "str", n |-> 0, s |-> s]
\* JSON null
NullV == [t |-> "null", n |-> 0, s |-> <<>>]
\* the key is not in the dict
AbsentV == [t |-> "absent", n |-> 0, s |-> <<>>]

\* isinstance(x, (int, float))
IsNumber(v) == v.t = "num"
\* isinstance(x, str)
IsStr(v) == v.t = "str"

\* a JSON object with the five keys of an alert, each present or not
Dict(source, token, cpu, ram, timestamp) ==
    [ kind |-> "dict",
      f |-> [ source |-> source, token |-> token, cpu |-> cpu,
              ram |-> ram, timestamp |-> timestamp ] ]
\* the JSON body null: request.get_json() returns None
NonePayload ==
    [ kind |-> "none",
      f |-> [ source |-> AbsentV, token |-> AbsentV, cpu |-> AbsentV,
              ram |-> AbsentV, timestamp |-> AbsentV ] ]
\* the JSON body {}
EmptyDict == Dict(AbsentV, AbsentV, AbsentV, AbsentV, AbsentV)

\* champ in data
Has(data, champ) == data.kind = "dict" /\ data.f[champ].t # "absent"
\* bool(data): None and {} are falsy
Truthy(data) == \E champ \in {"source", "token", "cpu", "ram", "timestamp"} : Has(data, champ)

\* str.strip(): leading and trailing whitespace removed
Whitespace == {" ", "\t", "\n"}
RECURSIVE lstrip(_)
lstrip(s) ==
    IF s # <<>> /\ Head(s) \in Whitespace THEN lstrip(Tail(s)) ELSE s
RECURSIVE rstrip(_)
rstrip(s) ==
    IF s # <<>> /\ s[Len(s)] \in Whitespace
    THEN rstrip(SubSeq(s, 1, Len(s) - 1)) ELSE s
strip(s) == rstrip(lstrip(s))

----------------------------------------------------------------------------
\* validator.py: valider_alerte

\* the result of a call: a returned (valide, raison) pair, or an exception
Retour(valide, raison) == [valide |-> valide, raison |-> raison, exception |-> "none"]
Leve(exc) == [valide |-> FALSE, raison |-> "", exception |-> exc]
\* no call made yet
NoResult == [valide |-> FALSE, raison |-> "", exception |-> "pending"]

\* step 2: the first required field that is missing, in the order of RULES
RECURSIVE champ_manquant(_, _)
champ_manquant(data, i) ==
    IF i > Len(RULES.required_fields) THEN ""
    ELSE IF ~Has(data, RULES.required_fields[i]) THEN RULES.required_fields[i]
    ELSE champ_manquant(data, i + 1)

\* steps 6 and 7 with an alert of exactly the maximum age taken as too old
valider_age_source_exclusif(data, t) ==
    LET timestamp == data.f.timestamp
        source == data.f.source
    IN  IF ~IsNumber(timestamp) THEN Leve("TypeError")
        ELSE LET age == t - timestamp.n
             IN  IF age >= RULES.max_age_seconds THEN Retour(FALSE, "Alerte trop ancienne")
                 ELSE IF age < 0 THEN Retour(FALSE, "Timestamp invalide : date dans le futur")
                 ELSE IF ~IsStr(source) \/ Len(strip(source.s)) = 0
                      THEN Retour(FALSE, "Source non identifiee")
                 ELSE Retour(TRUE, "OK")

\* steps 6 and 7, reached when the fields are present and cpu, ram are valid
valider_age_source(data, t) ==
    LET timestamp == data.f.timestamp
        source == data.f.source
    IN  IF ~IsNumber(timestamp) THEN Leve("TypeError")
        ELSE LET age == t - timestamp.n
             IN  IF age > RULES.max_age_seconds THEN Retour(FALSE, "Alerte trop ancienne")
                 ELSE IF age < 0 THEN Retour(FALSE, "Timestamp invalide : date dans le futur")
                 ELSE IF ~IsStr(source) \/ Len(strip(source.s)) = 0
                      THEN Retour(FALSE, "Source non identifiee")
                 ELSE Retour(TRUE, "OK")

\* steps 4 and 5 with the upper limits not tested
valider_cpu_ram_sans_max(data, t) ==
    LET cpu == data.f.cpu
        ram == data.f.ram
    IN  IF ~IsNumber(cpu) THEN Retour(FALSE, "La valeur CPU doit etre un nombre")
        ELSE IF ~(RULES.cpu_min <= cpu.n)
             THEN Retour(FALSE, "CPU hors limites")
        ELSE IF ~IsNumber(ram) THEN Retour(FALSE, "La valeur RAM doit etre un nombre")
        ELSE IF ~(RULES.ram_min <= ram.n)
             THEN Retour(FALSE, "RAM hors limites")
        ELSE valider_age_source(data, t)

\* steps 4 and 5
valider_cpu_ram(data, t) ==
    LET cpu == data.f.cpu
        ram == data.f.ram
    IN  IF ~IsNumber(cpu) THEN Retour(FALSE, "La valeur CPU doit etre un nombre")
        ELSE IF ~(RULES.cpu_min <= cpu.n /\ cpu.n <= RULES.cpu_max)
             THEN Retour(FALSE, "CPU hors limites")
        ELSE IF ~IsNumber(ram) THEN Retour(FALSE, "La valeur RAM doit etre un nombre")
        ELSE IF ~(RULES.ram_min <= ram.n /\ ram.n <= RULES.ram_max)
             THEN Retour(FALSE, "RAM hors limites")
        ELSE valider_age_source(data, t)

\* valider_alerte with step 3, the comparison of the token, left out
valider_alerte_sans_jeton(data, t) ==
    IF ~Truthy(data) THEN Retour(FALSE, "Donnees vides")
    ELSE IF champ_manquant(data, 1) # ""
         THEN Retour(FALSE, "Champ obligatoire manquant : " \o champ_manquant(data, 1))
    ELSE valider_cpu_ram(data, t)

\* valider_alerte(data), with t the value time.time() returns in step 6
valider_alerte(data, t) ==
    IF ~Truthy(data) THEN Retour(FALSE, "Donnees vides")
    ELSE IF champ_manquant(data, 1) # ""
         THEN Retour(FALSE, "Champ obligatoire manquant : " \o champ_manquant(data, 1))
    ELSE IF data.f.token # StrV(SECRET_TOKEN)
         THEN Retour(FALSE, "Token d'authentification invalide")
    ELSE valider_cpu_ram(data, t)

----------------------------------------------------------------------------
\* validator.py: the scaling decision

\* determiner_action with the thresholds themselves taken as crossing
determiner_action_large(cpu, policies) ==
    LET scale_up_threshold == policies.scale_up_threshold
        scale_down_threshold == policies.scale_down_threshold
    IN  IF cpu >= scale_up_threshold THEN "scale_up"
        ELSE IF cpu <= scale_down_threshold THEN "scale_down"
        ELSE "none"

\* determiner_action(cpu, policies)
determiner_action(cpu, policies) ==
    LET scale_up_threshold == policies.scale_up_threshold
        scale_down_threshold == policies.scale_down_threshold
    IN  IF cpu > scale_up_threshold THEN "scale_up"
        ELSE IF cpu < scale_down_threshold THEN "scale_down"
        ELSE "none"

\* the table with scale_up from m1.small going straight to m1.large
progression_saute ==
    [ scale_up   |-> [ small |-> "m1.large", medium |-> "m1.large", large |-> "m1.large" ],
      scale_down |-> [ large |-> "m1.medium", medium |-> "m1.small", small |-> "m1.small" ] ]

\* the table of determiner_nouveau_flavor
progression ==
    [ scale_up   |-> [ small |-> "m1.medium", medium |-> "m1.large", large |-> "m1.large" ],
      scale_down |-> [ large |-> "m1.medium", medium |-> "m1.small", small |-> "m1.small" ] ]

\* the key of a flavor in the rows of progression ("" when it has none)
cle(flavor) ==
    CASE flavor = "m1.small" -> "small"
      [] flavor = "m1.medium" -> "medium"
      [] flavor = "m1.large" -> "large"
      [] OTHER -> ""

\* determiner_nouveau_flavor with the first flavor as the default of line 191
determiner_nouveau_flavor_defaut(action, flavor_actuel) ==
    IF action \notin DOMAIN progression THEN flavor_actuel
    ELSE IF cle(flavor_actuel) \in DOMAIN progression[action]
         THEN progression[action][cle(flavor_actuel)]
    ELSE "m1.small"

\* determiner_nouveau_flavor(action, flavor_actuel)
determiner_nouveau_flavor(action, flavor_actuel) ==
    IF action \notin DOMAIN progression THEN flavor_actuel
    ELSE IF cle(flavor_actuel) \in DOMAIN progression[action]
         THEN progression[action][cle(flavor_actuel)]
    ELSE flavor_actuel

----------------------------------------------------------------------------
\* heat_client.py: the cooldown gate and the results of effectuer_resize

\* cooldown_respecte with the elapsed time taken from the clock alone, the last
\* scaling time forgotten
cooldown_respecte_sans_dernier(t, last) ==
    LET temps_ecoule == t
    IN  ~(temps_ecoule < COOLDOWN_SECONDS)

\* cooldown_respecte still blocking when exactly the cooldown has elapsed
cooldown_respecte_strict(t, last) ==
    LET temps_ecoule == t - last
    IN  ~(temps_ecoule <= COOLDOWN_SECONDS)

\* cooldown_respecte(), with t the value of time.time() and last the value of
\* _state["last_scaling_time"] it reads
cooldown_respecte(t, last) ==
    LET temps_ecoule == t - last
    IN  ~(temps_ecoule < COOLDOWN_SECONDS)

\* the dict every path of effectuer_resize returns
Resultat(success, action, message, ancien_flavor, nouveau_flavor) ==
    [ success |-> success, action |-> action, message |-> message,
      ancien_flavor |-> ancien_flavor, nouveau_flavor |-> nouveau_flavor ]
\* effectuer_resize has not returned
NoResultat == Resultat(FALSE, "", "", "", "")

\* the "none" result reported as a failure
resultat_none_echec(ancien_flavor, nouveau_flavor) ==
    Resultat(FALSE, "none", "Deja sur le flavor", ancien_flavor, nouveau_flavor)

\* "Deja sur le flavor ... aucun resize necessaire"
resultat_none(ancien_flavor, nouveau_flavor) ==
    Resultat(TRUE, "none", "Deja sur le flavor", ancien_flavor, nouveau_flavor)
\* the "cooldown" result reported as a success
resultat_cooldown_succes(ancien_flavor, nouveau_flavor) ==
    Resultat(TRUE, "cooldown", "Cooldown actif", ancien_flavor, nouveau_flavor)

\* "Cooldown actif - resize reporte"
resultat_cooldown(ancien_flavor, nouveau_flavor) ==
    Resultat(FALSE, "cooldown", "Cooldown actif", ancien_flavor, nouveau_flavor)
\* the error results of _resize_openstack
resultat_error(message, ancien_flavor, nouveau_flavor) ==
    Resultat(FALSE, "error", message, ancien_flavor, nouveau_flavor)
\* the result of _simuler_resize
resultat_simulated(ancien_flavor, nouveau_flavor) ==
    Resultat(TRUE, "simulated", "[SIMULATION] Resize reussi", ancien_flavor, nouveau_flavor)
\* the result of a confirmed _resize_openstack
resultat_resized(ancien_flavor, nouveau_flavor) ==
    Resultat(TRUE, "resized", "Resize reussi", ancien_flavor, nouveau_flavor)

----------------------------------------------------------------------------
\* The alert-handling threads (the server handles each request on its own thread)

Threads == {"t1", "t2"}
\* the server hands a request to the first free thread
Before(h) == IF h = "t2" THEN {"t1"} ELSE {}

\* the locals of recevoir_alerte and of the functions it calls
LocInit ==
    [ data |-> NonePayload,          \* request.get_json()
      verdict |-> NoResult,          \* (valide, raison)
      scale_up_threshold |-> 0,      \* determiner_action: first policies.get
      action |-> "",                 \* determiner_action(...)
      flavor_actuel |-> "",
      nouveau_flavor |-> "",
      ancien_flavor |-> "",          \* effectuer_resize: _state["current_flavor"]
      debut |-> 0,                   \* _attendre_statut: debut
      reveil |-> 0,                  \* the time at which the current time.sleep ends
      attente |-> "",                \* what _attendre_statut returned: "True", "False"
      appels |-> {},                 \* provider calls made by this invocation
      resultat |-> NoResultat,       \* effectuer_resize(...)
      flavor_reponse |-> "",         \* "flavor" of the JSON response
      http |-> 0 ]                   \* status of the HTTP response

\* the alerts posted at time t: a null body, a wrong token, and valid alerts
\* with a high, a middle and a low cpu
AlertPayloads(t) ==
    { NonePayload,
      Dict(StrV(<<"v","m">>), StrV(<<"b","a","d">>), NumV(Pct(85)), NumV(Pct(40)), NumV(t)),
      Dict(StrV(<<"v","m">>), StrV(SECRET_TOKEN), NumV(Pct(85)), NumV(Pct(40)), NumV(t)),
      Dict(StrV(<<"v","m">>), StrV(SECRET_TOKEN), NumV(Pct(50)), NumV(Pct(40)), NumV(t)),
      Dict(StrV(<<"v","m">>), StrV(SECRET_TOKEN), NumV(Pct(10)), NumV(Pct(40)), NumV(t)) }

\* an entry of the journal (its "time" field, a display string, is left out)
Log(type_log, message) == [type |-> type_log, message |-> message]

\* ajouter_log: insert at the head and keep the first LOGS_MAX entries
ajouter_log(logs, message, type_log) ==
    LET inserted == <<Log(type_log, message)>> \o logs
    IN  IF Len(inserted) > LOGS_MAX THEN SubSeq(inserted, 1, LOGS_MAX) ELSE inserted

\* time.strftime("%H:%M:%S"): the second of the day
strftime_HMS(t) == t % 86400

\* the module-level state of heat_client.py and adapter.py once the process
\* serves requests; connecter() has run and has set "connected"
InitProgram ==
    /\ now = StartTime
    /\ \E c \in BOOLEAN :
         _state = [ last_scaling_time |-> 0, current_flavor |-> "m1.small",
                    vm_id |-> "None", connected |-> c ]
    /\ state =
         [ vm |-> [ status |-> "ACTIVE", current_flavor |-> "m1.small",
                    cpu |-> Pct(0), ram |-> Pct(0), last_update |-> -1 ],
           policies |-> [ scale_up_threshold |-> Pct(80),
                          scale_down_threshold |-> Pct(20),
                          cooldown |-> getenv_int("COOLDOWN_SECONDS", 120),
                          evaluation_periods |-> 3,
                          period_seconds |-> 60 ],
           logs |-> << Log("info", "Adaptateur de metriques demarre") >>,
           stats |-> [ alertes_recues |-> 0, alertes_valides |-> 0,
                       alertes_rejetees |-> 0, scalings_up |-> 0,
                       scalings_down |-> 0 ] ]
    /\ state_lock = "free"
    /\ pc = [h \in Threads |-> "idle"]
    /\ loc = [h \in Threads |-> LocInit]
    /\ alertes = 0
    /\ admin = [pc |-> "idle", scale_up |-> NullV, scale_down |-> NullV,
                http |-> 0, ops |-> 0]

----------------------------------------------------------------------------
\* api/auth.py: the failed logins of each IP and connecter_utilisateur

\* lines 30 and 33, with the defaults of the environment variables
MAX_TENTATIVES == 5
BLOCAGE_DUREE == 300

\* _hasher_mot_de_passe: the SHA-256 digest of a password, distinct passwords
\* having distinct digests
_hasher_mot_de_passe(mot_de_passe) == <<"sha256", mot_de_passe>>

\* lines 44-52, with the defaults of the environment variables
UTILISATEURS ==
    [ admin |-> [ password_hash |-> _hasher_mot_de_passe("admin123"),
                  role |-> "admin" ] ]

\* the addresses the login attempts come from
IPs == { "10.0.0.1", "10.0.0.2" }

\* line 59: no IP has a record
AucuneTentative == [ip \in {} |-> [tentatives |-> 0, depuis |-> 0]]

\* del tentatives_connexion[ip]
supprimer(tentatives_connexion, ip) ==
    [i \in (DOMAIN tentatives_connexion) \ {ip} |-> tentatives_connexion[i]]

\* est_bloque(ip) at time t: what it returns, and the dict it leaves (the record
\* of a block that has expired is deleted)
est_bloque(tentatives_connexion, ip, t) ==
    IF ip \notin DOMAIN tentatives_connexion
    THEN [bloque |-> FALSE, restant |-> 0, tentatives_connexion |-> tentatives_connexion]
    ELSE LET info == tentatives_connexion[ip]
             temps_ecoule == t - info.depuis
         IN  IF info.tentatives < MAX_TENTATIVES
             THEN [bloque |-> FALSE, restant |-> 0,
                   tentatives_connexion |-> tentatives_connexion]
             ELSE IF temps_ecoule < BLOCAGE_DUREE
                  THEN [bloque |-> TRUE, restant |-> BLOCAGE_DUREE - temps_ecoule,
                        tentatives_connexion |-> tentatives_connexion]
             ELSE [bloque |-> FALSE, restant |-> 0,
                   tentatives_connexion |-> supprimer(tentatives_connexion, ip)]

\* enregistrer_tentative_echouee(ip) at time t: the dict it leaves; "depuis" is
\* written when the record is created and not afterwards
enregistrer_tentative_echouee(tentatives_connexion, ip, t) ==
    LET cree == IF ip \notin DOMAIN tentatives_connexion
                THEN [i \in (DOMAIN tentatives_connexion) \cup {ip} |->
                        IF i = ip THEN [tentatives |-> 0, depuis |-> t]
                        ELSE tentatives_connexion[i]]
                ELSE tentatives_connexion
    IN  [cree EXCEPT ![ip].tentatives = @ + 1]

\* reinitialiser_tentatives that leaves the record where it is
reinitialiser_tentatives_sans_effet(tentatives_connexion, ip) ==
    tentatives_connexion

\* reinitialiser_tentatives(ip): the dict it leaves
reinitialiser_tentatives(tentatives_connexion, ip) ==
    IF ip \in DOMAIN tentatives_connexion
    THEN supprimer(tentatives_connexion, ip)
    ELSE tentatives_connexion

\* the dicts connecter_utilisateur returns (lines 149-154, 160-165, 173-178,
\* 186-194)
resultat_bloque(restant) ==
    [success |-> FALSE, message |-> "Trop de tentatives", role |-> "",
     bloque |-> TRUE, restant |-> restant]
resultat_incorrect ==
    [success |-> FALSE, message |-> "Identifiants incorrects", role |-> "",
     bloque |-> FALSE, restant |-> 0]
resultat_reussie(role) ==
    [success |-> TRUE, message |-> "Connexion reussie", role |-> role,
     bloque |-> FALSE, restant |-> 0]

\* no call of connecter_utilisateur yet.  Besides the arguments and the result
\* of the last call, the record keeps what the call has observed: the number of
\* failed attempts the IP had when it started (avant), whether the call has
\* compared the identifiers with UTILISATEURS (verifie), and for each IP the
\* last time its number of failed attempts reached MAX_TENTATIVES (atteinte,
\* -1 when it never has)
NoConnexion ==
    [ ops |-> 0, ip |-> "", username |-> "", password |-> "", avant |-> 0,
      verifie |-> FALSE,
      resultat |-> [success |-> FALSE, message |-> "", role |-> "",
                    bloque |-> FALSE, restant |-> 0],
      atteinte |-> [ip \in IPs |-> -1] ]

----------------------------------------------------------------------------
\* api/auth.py: the session and the decorator of the administrator routes

\* line 27, with the default of the environment variable
SESSION_LIFETIME == 7200

\* flask.session as the set of its keys (cles) and the values of "user", "role"
\* and "login_time"; the keys "nom_complet" and "session_id" are read by none
\* of the checks.  session.clear() leaves SessionVide
SessionVide == [cles |-> {}, user |-> "", role |-> "", login_time |-> 0]

\* session.get("login_time", 0)
session_get_login_time(s) == IF "login_time" \in s.cles THEN s.login_time ELSE 0

\* session.get("role"): None when the key is absent
session_get_role(s) == IF "role" \in s.cles THEN s.role ELSE "None"

\* session_valide() at time t: what it returns, and the session it leaves (an
\* expired session is destroyed)
session_valide(s, t) ==
    IF "user" \notin s.cles THEN [valide |-> FALSE, session |-> s]
    ELSE IF t - session_get_login_time(s) > SESSION_LIFETIME
         THEN [valide |-> FALSE, session |-> SessionVide]
    ELSE [valide |-> TRUE, session |-> s]

\* the arguments of a call of determiner_action, determiner_nouveau_flavor or
\* cooldown_respecte (for the last, the clock and _state["last_scaling_time"])
Appel(f, cpu, policies, action, flavor_actuel, t, last) ==
    [ f |-> f, cpu |-> cpu, policies |-> policies, action |-> action,
      flavor_actuel |-> flavor_actuel, t |-> t, last |-> last ]
\* no function under test
NoAppel == Appel("", 0, [scale_up_threshold |-> 0, scale_down_threshold |-> 0], "", "", 0, 0)
\* the value a call returned: a string or a boolean
RetourStr(s) == [fait |-> TRUE, s |-> s, b |-> FALSE]
RetourBool(b) == [fait |-> TRUE, s |-> "", b |-> b]
\* no call made yet
NoRetour == [fait |-> FALSE, s |-> "", b |-> FALSE]

Init ==
    /\ environ = EnvironVide
    /\ InitProgram
    /\ va_data = NonePayload
    /\ va_result = NoResult
    /\ fn_args = NoAppel
    /\ fn_result = NoRetour
    /\ _tentatives_connexion = AucuneTentative
    /\ connexion = NoConnexion
    /\ session = SessionVide

\* the positions at which a thread waits: for a request, or in time.sleep
Waiting == {"idle", "sim_sleep", "dormir"}

\* time passes while every thread waits; the steps between two waits, the
\* provider's answers included, take no time
Tick ==
    /\ now < StartTime + MaxTick * TickSeconds
    /\ \A h \in Threads : pc[h] \in Waiting
    /\ now' = now + TickSeconds
    /\ UNCHANGED <<_state, state, state_lock, pc, loc, alertes, admin, va_data, va_result, fn_args, fn_result,
                   _tentatives_connexion, connexion, session, environ>>

----------------------------------------------------------------------------
\* adapter.py: recevoir_alerte, one action per step between two accesses to
\* shared state.  A "with state_lock:" block that does not block inside is one
\* step, enabled when the lock is free.

Others == <<now, alertes, admin, va_data, va_result, fn_args, fn_result,
                   _tentatives_connexion, connexion, session, environ>>

\* thread h moves to position p with its locals set to l
Goto(h, p, l) ==
    /\ pc' = [pc EXCEPT ![h] = p]
    /\ loc' = [loc EXCEPT ![h] = l]

\* lines 180-183: count the alert, read the JSON body
Recevoir(h, d) ==
    /\ pc[h] = "idle"
    /\ \A g \in Before(h) : pc[g] # "idle"
    /\ alertes < MaxAlerts
    /\ state_lock = "free"
    /\ alertes' = alertes + 1
    /\ state' = [state EXCEPT !.stats.alertes_recues = @ + 1]
    /\ Goto(h, "valider", [LocInit EXCEPT !.data = d])
    /\ UNCHANGED <<now, _state, state_lock, admin, va_data, va_result, fn_args, fn_result,
                   _tentatives_connexion, connexion, session, environ>>

\* lines 184-189 without the test of line 189: a rejected alert goes on
Valider_sans_rejet(h) ==
    /\ pc[h] = "valider"
    /\ LET verdict == IF loc[h].data.kind = "none" THEN Leve("AttributeError")
                      ELSE valider_alerte(loc[h].data, now)
           l == [loc[h] EXCEPT !.verdict = verdict]
       IN  IF verdict.exception # "none" THEN Goto(h, "done", [l EXCEPT !.http = 500])
           ELSE Goto(h, "compter_valide", l)
    /\ UNCHANGED <<_state, state, state_lock>>
    /\ UNCHANGED Others

\* lines 184-189: data.get(...) raises AttributeError on None; valider_alerte
\* returns or raises; an exception ends the request with status 500
Valider(h) ==
    /\ pc[h] = "valider"
    /\ LET verdict == IF loc[h].data.kind = "none" THEN Leve("AttributeError")
                      ELSE valider_alerte(loc[h].data, now)
           l == [loc[h] EXCEPT !.verdict = verdict]
       IN  IF verdict.exception # "none" THEN Goto(h, "done", [l EXCEPT !.http = 500])
           ELSE IF ~verdict.valide THEN Goto(h, "rejeter", l)
           ELSE Goto(h, "compter_valide", l)
    /\ UNCHANGED <<_state, state, state_lock>>
    /\ UNCHANGED Others

\* the rejection counted among the valid alerts
Rejeter_compte_valide(h) ==
    /\ pc[h] = "rejeter"
    /\ state_lock = "free"
    /\ state' = [state EXCEPT !.stats.alertes_valides = @ + 1]
    /\ Goto(h, "log_rejet", loc[h])
    /\ UNCHANGED <<_state, state_lock>>
    /\ UNCHANGED Others

\* lines 190-191
Rejeter(h) ==
    /\ pc[h] = "rejeter"
    /\ state_lock = "free"
    /\ state' = [state EXCEPT !.stats.alertes_rejetees = @ + 1]
    /\ Goto(h, "log_rejet", loc[h])
    /\ UNCHANGED <<_state, state_lock>>
    /\ UNCHANGED Others

\* lines 192-194
LogRejet(h) ==
    /\ pc[h] = "log_rejet"
    /\ state_lock = "free"
    /\ state' = [state EXCEPT !.logs = ajouter_log(@, "Alerte rejetee", "warning")]
    /\ Goto(h, "done", [loc[h] EXCEPT !.http = 400])
    /\ UNCHANGED <<_state, state_lock>>
    /\ UNCHANGED Others

\* lines 196-197
CompterValide(h) ==
    /\ pc[h] = "compter_valide"
    /\ state_lock = "free"
    /\ state' = [state EXCEPT !.stats.alertes_valides = @ + 1]
    /\ Goto(h, "maj_metriques", loc[h])
    /\ UNCHANGED <<_state, state_lock>>
    /\ UNCHANGED Others

\* lines 200-203
MajMetriques(h) ==
    /\ pc[h] = "maj_metriques"
    /\ state_lock = "free"
    /\ state' = [state EXCEPT !.vm.cpu = loc[h].data.f.cpu.n,
                              !.vm.ram = loc[h].data.f.ram.n,
                              !.vm.last_update = strftime_HMS(now)]
    /\ Goto(h, "lire_seuil", loc[h])
    /\ UNCHANGED <<_state, state_lock>>
    /\ UNCHANGED Others

\* line 206, validator.py line 141: the first read of state["policies"]
LireSeuil(h) ==
    /\ pc[h] = "lire_seuil"
    /\ Goto(h, "decider", [loc[h] EXCEPT !.scale_up_threshold =
                                             state.policies.scale_up_threshold])
    /\ UNCHANGED <<_state, state, state_lock>>
    /\ UNCHANGED Others

\* validator.py lines 142-162: the second read and the decision; line 208
Decider(h) ==
    /\ pc[h] = "decider"
    /\ LET action == determiner_action(
                         loc[h].data.f.cpu.n,
                         [ scale_up_threshold |-> loc[h].scale_up_threshold,
                           scale_down_threshold |-> state.policies.scale_down_threshold ])
           l == [loc[h] EXCEPT !.action = action]
       IN  IF action # "none" THEN Goto(h, "lire_flavor", l)
           ELSE Goto(h, "log_aucune", l)
    /\ UNCHANGED <<_state, state, state_lock>>
    /\ UNCHANGED Others

\* lines 209-213 with the call of effectuer_resize placed inside
\* "with state_lock:"
LireFlavor_sous_verrou(h) ==
    /\ pc[h] = "lire_flavor"
    /\ state_lock = "free"
    /\ state_lock' = h
    /\ LET flavor_actuel == state.vm.current_flavor
       IN  Goto(h, "er_entree",
                [loc[h] EXCEPT !.flavor_actuel = flavor_actuel,
                               !.nouveau_flavor =
                                   determiner_nouveau_flavor(loc[h].action, flavor_actuel)])
    /\ UNCHANGED <<_state, state>>
    /\ UNCHANGED Others

\* lines 209-210
LireFlavor(h) ==
    /\ pc[h] = "lire_flavor"
    /\ LET flavor_actuel == state.vm.current_flavor
       IN  Goto(h, "er_entree",
                [loc[h] EXCEPT !.flavor_actuel = flavor_actuel,
                               !.nouveau_flavor =
                                   determiner_nouveau_flavor(loc[h].action, flavor_actuel)])
    /\ UNCHANGED <<_state, state, state_lock>>
    /\ UNCHANGED Others

----------------------------------------------------------------------------
\* heat_client.py: effectuer_resize as called on line 213 of adapter.py.
\* Calls to the provider (novaclient) return or raise as the provider decides.

\* effectuer_resize returns r to recevoir_alerte
Retourner(h, l, r) == Goto(h, "apres_resize", [l EXCEPT !.resultat = r])

\* thread h makes the provider call named appel
Appeler(l, appel) == [l EXCEPT !.appels = @ \cup {appel}]

\* effectuer_resize without the test of lines 192-201
ErEntree_sans_test(h) ==
    /\ pc[h] = "er_entree"
    /\ Goto(h, "er_cooldown", [loc[h] EXCEPT !.ancien_flavor = _state.current_flavor])
    /\ UNCHANGED <<_state, state, state_lock>>
    /\ UNCHANGED Others

\* lines 189-201: read the current flavor, return "none" when it is the target
ErEntree(h) ==
    /\ pc[h] = "er_entree"
    /\ LET ancien_flavor == _state.current_flavor
           l == [loc[h] EXCEPT !.ancien_flavor = ancien_flavor]
       IN  IF loc[h].nouveau_flavor = ancien_flavor
           THEN Retourner(h, l, resultat_none(ancien_flavor, loc[h].nouveau_flavor))
           ELSE Goto(h, "er_cooldown", l)
    /\ UNCHANGED <<_state, state, state_lock>>
    /\ UNCHANGED Others

\* lines 203-220 with the refusal recorded as a scaling time
ErCooldown_horodate(h) ==
    /\ pc[h] = "er_cooldown"
    /\ IF ~cooldown_respecte(now, _state.last_scaling_time)
       THEN /\ _state' = [_state EXCEPT !.last_scaling_time = now]
            /\ Retourner(h, loc[h],
                         resultat_cooldown(loc[h].ancien_flavor, loc[h].nouveau_flavor))
       ELSE /\ UNCHANGED _state
            /\ IF ~_state.connected
               THEN Goto(h, "sim_sleep", [loc[h] EXCEPT !.reveil = now + SIM_SLEEP])
               ELSE Goto(h, "os_vm_id", loc[h])
    /\ UNCHANGED <<state, state_lock>>
    /\ UNCHANGED Others

\* lines 203-220: the cooldown gate, then the choice of the simulated or the
\* real path (time.sleep(1) of _simuler_resize starts here)
ErCooldown(h) ==
    /\ pc[h] = "er_cooldown"
    /\ IF ~cooldown_respecte(now, _state.last_scaling_time)
       THEN Retourner(h, loc[h],
                      resultat_cooldown(loc[h].ancien_flavor, loc[h].nouveau_flavor))
       ELSE IF ~_state.connected
            THEN Goto(h, "sim_sleep", [loc[h] EXCEPT !.reveil = now + SIM_SLEEP])
       ELSE Goto(h, "os_vm_id", loc[h])
    /\ UNCHANGED <<_state, state, state_lock>>
    /\ UNCHANGED Others

\* _simuler_resize lines 349-352: the sleep ends, the flavor is written
SimEcrireFlavor(h) ==
    /\ pc[h] = "sim_sleep"
    /\ now >= loc[h].reveil
    /\ _state' = [_state EXCEPT !.current_flavor = loc[h].nouveau_flavor]
    /\ Goto(h, "sim_fin", loc[h])
    /\ UNCHANGED <<state, state_lock>>
    /\ UNCHANGED Others

\* _simuler_resize returning without writing the last scaling time
SimFin_sans_horodatage(h) ==
    /\ pc[h] = "sim_fin"
    /\ Goto(h, "apres_resize",
            [loc[h] EXCEPT !.resultat =
                resultat_simulated(loc[h].ancien_flavor, loc[h].nouveau_flavor)])
    /\ UNCHANGED <<_state, state, state_lock>>
    /\ UNCHANGED Others

\* _simuler_resize lines 353-367
SimFin(h) ==
    /\ pc[h] = "sim_fin"
    /\ _state' = [_state EXCEPT !.last_scaling_time = now]
    /\ Retourner(h, loc[h],
                 resultat_simulated(loc[h].ancien_flavor, loc[h].nouveau_flavor))
    /\ UNCHANGED <<state, state_lock>>
    /\ UNCHANGED Others

\* lines 231-243 without the test of line 236: the resize goes on with no id
OsVmId_sans_test(h, reponse) ==
    /\ pc[h] = "os_vm_id"
    /\ reponse \in {"found", "empty", "raise"}
    /\ IF _state.vm_id # "None"
       THEN /\ reponse = "found"
            /\ Goto(h, "os_flavors", loc[h])
            /\ UNCHANGED _state
       ELSE IF reponse = "found"
            THEN /\ _state' = [_state EXCEPT !.vm_id = "vm-id"]
                 /\ Goto(h, "os_flavors", Appeler(loc[h], "servers.list"))
       ELSE /\ UNCHANGED _state
            /\ Goto(h, "os_flavors", Appeler(loc[h], "servers.list"))
    /\ UNCHANGED <<state, state_lock>>
    /\ UNCHANGED Others

\* _resize_openstack lines 231-243 and recuperer_vm_id lines 128-143: the
\* cached id is used, or servers.list finds the VM, finds nothing or raises
\* (recuperer_vm_id catches the exception and returns None)
OsVmId(h, reponse) ==
    /\ pc[h] = "os_vm_id"
    /\ reponse \in {"found", "empty", "raise"}
    /\ IF _state.vm_id # "None"
       THEN /\ reponse = "found"
            /\ Goto(h, "os_flavors", loc[h])
            /\ UNCHANGED _state
       ELSE IF reponse = "found"
            THEN /\ _state' = [_state EXCEPT !.vm_id = "vm-id"]
                 /\ Goto(h, "os_flavors", Appeler(loc[h], "servers.list"))
       ELSE /\ UNCHANGED _state
            /\ Retourner(h, Appeler(loc[h], "servers.list"),
                         resultat_error("VM introuvable", loc[h].ancien_flavor,
                                        loc[h].nouveau_flavor))
    /\ UNCHANGED <<state, state_lock>>
    /\ UNCHANGED Others

\* _resize_openstack without its try/except: the exception leaves
\* effectuer_resize and recevoir_alerte, and the request ends with status 500
Exception_propagee(h, l) ==
    Goto(h, "done", [l EXCEPT !.http = 500])

\* the except clause of _resize_openstack, lines 294-303
Exception(h, l) ==
    Retourner(h, l, resultat_error("Erreur lors du resize", l.ancien_flavor,
                                   l.nouveau_flavor))

\* lines 245-259: flavors.list holds the target flavor, does not, or raises
OsFlavors(h, reponse) ==
    /\ pc[h] = "os_flavors"
    /\ reponse \in {"found", "empty", "raise"}
    /\ LET l == Appeler(loc[h], "flavors.list")
       IN  CASE reponse = "found" -> Goto(h, "os_get", l)
             [] reponse = "empty" ->
                    Retourner(h, l, resultat_error("Flavor introuvable",
                                                   l.ancien_flavor, l.nouveau_flavor))
             [] reponse = "raise" -> Exception(h, l)
    /\ UNCHANGED <<_state, state, state_lock>>
    /\ UNCHANGED Others

\* line 262: servers.get returns the server or raises
OsGet(h, reponse) ==
    /\ pc[h] = "os_get"
    /\ reponse \in {"ok", "raise"}
    /\ LET l == Appeler(loc[h], "servers.get")
       IN  IF reponse = "ok" THEN Goto(h, "os_resize", l) ELSE Exception(h, l)
    /\ UNCHANGED <<_state, state, state_lock>>
    /\ UNCHANGED Others

\* lines 263-271 and 314: the resize is submitted, or raises; _attendre_statut
\* starts and reads the clock
OsResize(h, reponse) ==
    /\ pc[h] = "os_resize"
    /\ reponse \in {"ok", "raise"}
    /\ LET l == Appeler(loc[h], "resize")
       IN  IF reponse = "ok" THEN Goto(h, "attendre", [l EXCEPT !.debut = now])
           ELSE Exception(h, l)
    /\ UNCHANGED <<_state, state, state_lock>>
    /\ UNCHANGED Others

\* _attendre_statut without its timeout: "while True"
Attendre_sans_timeout(h, statut) ==
    /\ pc[h] = "attendre"
    /\ statut \in {"RESIZE", "VERIFY_RESIZE", "ERROR", "raise"}
    /\ LET l == Appeler(loc[h], "get")
       IN  CASE statut = "raise" -> Exception(h, l)
             [] statut = "VERIFY_RESIZE" ->
                    Goto(h, "os_confirm", [l EXCEPT !.attente = "True"])
             [] statut = "ERROR" ->
                    Goto(h, "os_confirm", [l EXCEPT !.attente = "False"])
             [] OTHER ->
                    Goto(h, "dormir", [l EXCEPT !.reveil = now + POLL_SLEEP])
    /\ UNCHANGED <<_state, state, state_lock>>
    /\ UNCHANGED Others

\* _attendre_statut lines 316-332: one turn of the loop.  serveur.get() raises
\* or refreshes the status; the return value is kept in attente
Attendre(h, statut) ==
    /\ pc[h] = "attendre"
    /\ statut \in {"RESIZE", "VERIFY_RESIZE", "ERROR", "raise"}
    /\ IF now - loc[h].debut < POLL_TIMEOUT
       THEN LET l == Appeler(loc[h], "get")
            IN  CASE statut = "raise" -> Exception(h, l)
                  [] statut = "VERIFY_RESIZE" ->
                         Goto(h, "os_confirm", [l EXCEPT !.attente = "True"])
                  [] statut = "ERROR" ->
                         Goto(h, "os_confirm", [l EXCEPT !.attente = "False"])
                  [] OTHER ->
                         Goto(h, "dormir", [l EXCEPT !.reveil = now + POLL_SLEEP])
       ELSE /\ statut = "RESIZE"
            /\ Goto(h, "os_confirm", [loc[h] EXCEPT !.attente = "False"])
    /\ UNCHANGED <<_state, state, state_lock>>
    /\ UNCHANGED Others

\* _attendre_statut line 329: time.sleep(5) ends
Dormir(h) ==
    /\ pc[h] = "dormir"
    /\ now >= loc[h].reveil
    /\ Goto(h, "attendre", loc[h])
    /\ UNCHANGED <<_state, state, state_lock>>
    /\ UNCHANGED Others

\* lines 271-274: the value _attendre_statut returned is dropped and
\* confirm_resize is called; it returns or raises
OsConfirm(h, reponse) ==
    /\ pc[h] = "os_confirm"
    /\ reponse \in {"ok", "raise"}
    /\ LET l == Appeler(loc[h], "confirm_resize")
       IN  IF reponse = "ok" THEN Goto(h, "os_ecrire", l) ELSE Exception(h, l)
    /\ UNCHANGED <<_state, state, state_lock>>
    /\ UNCHANGED Others

\* line 277
OsEcrireFlavor(h) ==
    /\ pc[h] = "os_ecrire"
    /\ _state' = [_state EXCEPT !.current_flavor = loc[h].nouveau_flavor]
    /\ Goto(h, "os_fin", loc[h])
    /\ UNCHANGED <<state, state_lock>>
    /\ UNCHANGED Others

\* lines 278-292
OsFin(h) ==
    /\ pc[h] = "os_fin"
    /\ _state' = [_state EXCEPT !.last_scaling_time = now]
    /\ Retourner(h, loc[h],
                 resultat_resized(loc[h].ancien_flavor, loc[h].nouveau_flavor))
    /\ UNCHANGED <<state, state_lock>>
    /\ UNCHANGED Others

----------------------------------------------------------------------------
\* adapter.py: recevoir_alerte after effectuer_resize has returned

\* line 215 without the test of "success"
a_committe_sans_success(resultat) ==
    resultat.action \notin {"none", "cooldown"}

\* line 215
a_committe(resultat) ==
    resultat.success /\ resultat.action \notin {"none", "cooldown"}

\* lines 215-221, or the journal entry of lines 230-233
ApresResize(h) ==
    /\ pc[h] = "apres_resize"
    /\ state_lock = "free"
    /\ LET resultat == loc[h].resultat
       IN  IF a_committe(resultat)
           THEN /\ state' =
                     [state EXCEPT
                        !.vm.current_flavor = loc[h].nouveau_flavor,
                        !.stats.scalings_up =
                            IF loc[h].action = "scale_up" THEN @ + 1 ELSE @,
                        !.stats.scalings_down =
                            IF loc[h].action = "scale_up" THEN @ ELSE @ + 1]
                /\ Goto(h, "log_scale", loc[h])
           ELSE IF resultat.action = "cooldown"
                THEN /\ state' = [state EXCEPT !.logs =
                                      ajouter_log(@, "Cooldown actif", "info")]
                     /\ Goto(h, "emettre", loc[h])
           ELSE /\ state' = [state EXCEPT !.logs =
                                 ajouter_log(@, "Erreur scaling", "error")]
                /\ Goto(h, "emettre", loc[h])
    /\ UNCHANGED <<_state, state_lock>>
    /\ UNCHANGED Others

\* lines 223-229
LogScale(h) ==
    /\ pc[h] = "log_scale"
    /\ state_lock = "free"
    /\ state' = [state EXCEPT !.logs =
                     IF loc[h].action = "scale_up"
                     THEN ajouter_log(@, "Scale Up", "success")
                     ELSE ajouter_log(@, "Scale Down", "warning")]
    /\ Goto(h, "emettre", loc[h])
    /\ UNCHANGED <<_state, state_lock>>
    /\ UNCHANGED Others

\* lines 234-239
LogAucune(h) ==
    /\ pc[h] = "log_aucune"
    /\ state_lock = "free"
    /\ state' = [state EXCEPT !.logs = ajouter_log(@, "Metriques recues", "info")]
    /\ Goto(h, "emettre", loc[h])
    /\ UNCHANGED <<_state, state_lock>>
    /\ UNCHANGED Others

\* lines 241-248: emettre_metriques reads the state, the response is built
Emettre(h) ==
    /\ pc[h] = "emettre"
    /\ Goto(h, "done", [loc[h] EXCEPT !.flavor_reponse = state.vm.current_flavor,
                                      !.http = 200])
    /\ UNCHANGED <<_state, state, state_lock>>
    /\ UNCHANGED Others

\* the response is sent and the thread is free for the next request
Fin(h) ==
    /\ pc[h] = "done"
    /\ Goto(h, "idle", LocInit)
    /\ UNCHANGED <<_state, state, state_lock>>
    /\ UNCHANGED Others

\* one step of the alert-handling thread h
Etapes(h) ==
    \/ \E d \in AlertPayloads(now) : Recevoir(h, d)
    \/ Valider(h) \/ Rejeter(h) \/ LogRejet(h)
    \/ CompterValide(h) \/ MajMetriques(h) \/ LireSeuil(h) \/ Decider(h)
    \/ LireFlavor(h) \/ ErEntree(h) \/ ErCooldown(h)
    \/ SimEcrireFlavor(h) \/ SimFin(h)
    \/ \E reponse \in {"found", "empty", "raise"} : OsVmId(h, reponse)
    \/ \E reponse \in {"found", "empty", "raise"} : OsFlavors(h, reponse)
    \/ \E reponse \in {"ok", "raise"} : OsGet(h, reponse)
    \/ \E reponse \in {"ok", "raise"} : OsResize(h, reponse)
    \/ \E statut \in {"RESIZE", "VERIFY_RESIZE", "ERROR", "raise"} : Attendre(h, statut)
    \/ Dormir(h)
    \/ \E reponse \in {"ok", "raise"} : OsConfirm(h, reponse)
    \/ OsEcrireFlavor(h) \/ OsFin(h)
    \/ ApresResize(h) \/ LogScale(h) \/ LogAucune(h) \/ Emettre(h) \/ Fin(h)

\* one step of one alert-handling thread
Pipeline == \E h \in Threads : Etapes(h)

Next ==
    \/ Tick
    \/ Pipeline

Spec == Init /\ [][Next]_vars

----------------------------------------------------------------------------
\* Alerts handled one after the other: a request arrives when the previous one
\* has been answered, so one thread serves them all

\* the state left by one earlier alert with cpu 85 whose scale-up from m1.small
\* to m1.medium was committed COOLDOWN_SECONDS before StartTime
InitApresScaleUp ==
    /\ now = StartTime
    /\ \E c \in BOOLEAN :
         _state = [ last_scaling_time |-> StartTime - COOLDOWN_SECONDS,
                    current_flavor |-> "m1.medium",
                    vm_id |-> IF c THEN "vm-id" ELSE "None", connected |-> c ]
    /\ state =
         [ vm |-> [ status |-> "ACTIVE", current_flavor |-> "m1.medium",
                    cpu |-> Pct(85), ram |-> Pct(40),
                    last_update |-> strftime_HMS(StartTime - COOLDOWN_SECONDS) ],
           policies |-> [ scale_up_threshold |-> Pct(80),
                          scale_down_threshold |-> Pct(20),
                          cooldown |-> getenv_int("COOLDOWN_SECONDS", 120),
                          evaluation_periods |-> 3,
                          period_seconds |-> 60 ],
           logs |-> << Log("success", "Scale Up"),
                       Log("info", "Adaptateur de metriques demarre") >>,
           stats |-> [ alertes_recues |-> 1, alertes_valides |-> 1,
                       alertes_rejetees |-> 0, scalings_up |-> 1,
                       scalings_down |-> 0 ] ]
    /\ state_lock = "free"
    /\ pc = [h \in Threads |-> "idle"]
    /\ loc = [h \in Threads |-> LocInit]
    /\ alertes = 0
    /\ admin = [pc |-> "idle", scale_up |-> NullV, scale_down |-> NullV,
                http |-> 0, ops |-> 0]

InitSequentiel ==
    /\ environ = EnvironVide
    /\ InitProgram \/ InitApresScaleUp
    /\ va_data = NonePayload
    /\ va_result = NoResult
    /\ fn_args = NoAppel
    /\ fn_result = NoRetour
    /\ _tentatives_connexion = AucuneTentative
    /\ connexion = NoConnexion
    /\ session = SessionVide

\* the thread that serves the requests
Premier == "t1"

Sequentiel ==
    \/ Tick
    \/ Etapes(Premier)

SpecSequentiel == InitSequentiel /\ [][Sequentiel]_vars

----------------------------------------------------------------------------
\* The alert pipeline with a clock that keeps advancing and threads that keep
\* running: time.sleep returns, each provider call returns (or raises), and the
\* server runs every thread that can take a step

\* the clock advances as Tick does, and also past the last observation for as
\* long as a thread sleeps
TickVivace ==
    /\ \/ now < StartTime + MaxTick * TickSeconds
       \/ \E h \in Threads : pc[h] \in {"sim_sleep", "dormir"} /\ now < loc[h].reveil
    /\ \A h \in Threads : pc[h] \in Waiting
    /\ now' = now + TickSeconds
    /\ UNCHANGED <<_state, state, state_lock, pc, loc, alertes, admin, va_data,
                   va_result, fn_args, fn_result,
                   _tentatives_connexion, connexion, session, environ>>

\* a step of thread h in the handling of the alert it has received
Avancer(h) == pc[h] # "idle" /\ Etapes(h)

NextVivace ==
    \/ TickVivace
    \/ Pipeline

SpecVivace ==
    /\ Init
    /\ [][NextVivace]_vars
    /\ WF_vars(TickVivace)
    /\ \A h \in Threads : WF_vars(Avancer(h))

----------------------------------------------------------------------------
\* The policy routes: PUT /api/policies of adapter.py (api_update_policies),
\* PUT /policies and POST /policies/reset of api/routes.py (update_policies,
\* reset_policies), run by one administrator, one request at a time.  The
\* actions start once the session check of the route has passed.

\* 0 < scale_down < scale_up < 100, on numbers
seuils_valides(scale_up, scale_down) ==
    0 < scale_down /\ scale_down < scale_up /\ scale_up < Pct(100)

\* int(x) on a float: truncation toward zero
int(x) == IF x >= 0 THEN (x \div Unit) * Unit ELSE 0 - (((0 - x) \div Unit) * Unit)

\* the values a request may give for a threshold: absent (None), a string, or
\* a number, whole or not
SeuilInputs ==
    { NullV, StrV(<<"8","0">>) } \cup
    { NumV(n) : n \in { 0 - Pct(5), 0, 1, Unit - 1, Pct(15), Pct(15) + 1,
                        Pct(90), Pct(100) } }

\* the request is answered with status http
Repondre(http) ==
    admin' = [pc |-> "idle", scale_up |-> NullV, scale_down |-> NullV,
              http |-> http, ops |-> admin.ops]

\* a request starts
Debut == admin.pc = "idle" /\ admin.ops < MaxAdminOps

\* adapter.py lines 337-352: the checks, then the first write under state_lock.
\* Comparing a string with a number raises TypeError (status 500)
ApiUpdatePolicies(scale_up, scale_down) ==
    /\ Debut
    /\ IF scale_up.t = "null" \/ scale_down.t = "null"
       THEN /\ admin' = [admin EXCEPT !.http = 400, !.ops = @ + 1]
            /\ UNCHANGED <<state, state_lock>>
       ELSE IF ~IsNumber(scale_up) \/ ~IsNumber(scale_down)
            THEN /\ admin' = [admin EXCEPT !.http = 500, !.ops = @ + 1]
                 /\ UNCHANGED <<state, state_lock>>
       ELSE IF ~seuils_valides(scale_up.n, scale_down.n)
            THEN /\ admin' = [admin EXCEPT !.http = 400, !.ops = @ + 1]
                 /\ UNCHANGED <<state, state_lock>>
       ELSE /\ state_lock = "free"
            /\ state_lock' = "admin"
            /\ state' = [state EXCEPT !.policies.scale_up_threshold = scale_up.n]
            /\ admin' = [pc |-> "api_down", scale_up |-> scale_up,
                         scale_down |-> scale_down, http |-> 0, ops |-> admin.ops + 1]
    /\ UNCHANGED <<now, _state, pc, loc, alertes, va_data, va_result, fn_args, fn_result,
                   _tentatives_connexion, connexion, session, environ>>

\* adapter.py line 353: the second write, the lock is released
ApiEcrireDown ==
    /\ admin.pc = "api_down"
    /\ state' = [state EXCEPT !.policies.scale_down_threshold = admin.scale_down.n]
    /\ state_lock' = "free"
    /\ admin' = [admin EXCEPT !.pc = "api_log"]
    /\ UNCHANGED <<now, _state, pc, loc, alertes, va_data, va_result, fn_args, fn_result,
                   _tentatives_connexion, connexion, session, environ>>

\* adapter.py lines 355-365
ApiLog ==
    /\ admin.pc = "api_log"
    /\ state_lock = "free"
    /\ state' = [state EXCEPT !.logs = ajouter_log(@, "Politiques mises a jour", "info")]
    /\ Repondre(200)
    /\ UNCHANGED <<now, _state, state_lock, pc, loc, alertes, va_data, va_result, fn_args, fn_result,
                   _tentatives_connexion, connexion, session, environ>>

\* routes.py lines 174-198: the checks, then the first write, without the lock
UpdatePolicies(scale_up, scale_down) ==
    /\ Debut
    /\ IF \/ scale_up.t = "null" \/ scale_down.t = "null"
          \/ ~IsNumber(scale_up) \/ ~IsNumber(scale_down)
          \/ ~seuils_valides(scale_up.n, scale_down.n)
       THEN /\ admin' = [admin EXCEPT !.http = 400, !.ops = @ + 1]
            /\ UNCHANGED state
       ELSE /\ state' = [state EXCEPT !.policies.scale_up_threshold = int(scale_up.n)]
            /\ admin' = [pc |-> "rt_down", scale_up |-> scale_up,
                         scale_down |-> scale_down, http |-> 0, ops |-> admin.ops + 1]
    /\ UNCHANGED <<now, _state, state_lock, pc, loc, alertes, va_data, va_result, fn_args, fn_result,
                   _tentatives_connexion, connexion, session, environ>>

\* routes.py line 199
RtEcrireDown ==
    /\ admin.pc = "rt_down"
    /\ state' = [state EXCEPT !.policies.scale_down_threshold = int(admin.scale_down.n)]
    /\ admin' = [admin EXCEPT !.pc = "rt_log"]
    /\ UNCHANGED <<now, _state, state_lock, pc, loc, alertes, va_data, va_result, fn_args, fn_result,
                   _tentatives_connexion, connexion, session, environ>>

\* routes.py lines 201-220: the journal entry is inserted without the lock and
\* without cutting the journal
RtLog ==
    /\ admin.pc = "rt_log"
    /\ state' = [state EXCEPT !.logs = <<Log("info", "Politiques mises a jour")>> \o @]
    /\ Repondre(200)
    /\ UNCHANGED <<now, _state, state_lock, pc, loc, alertes, va_data, va_result, fn_args, fn_result,
                   _tentatives_connexion, connexion, session, environ>>

\* routes.py line 232
ResetPolicies ==
    /\ Debut
    /\ state' = [state EXCEPT !.policies.scale_up_threshold = Pct(80)]
    /\ admin' = [admin EXCEPT !.pc = "reset_down", !.ops = @ + 1, !.http = 0]
    /\ UNCHANGED <<now, _state, state_lock, pc, loc, alertes, va_data, va_result, fn_args, fn_result,
                   _tentatives_connexion, connexion, session, environ>>

\* routes.py line 233
ResetEcrireDown ==
    /\ admin.pc = "reset_down"
    /\ state' = [state EXCEPT !.policies.scale_down_threshold = Pct(20)]
    /\ admin' = [admin EXCEPT !.pc = "reset_reste"]
    /\ UNCHANGED <<now, _state, state_lock, pc, loc, alertes, va_data, va_result, fn_args, fn_result,
                   _tentatives_connexion, connexion, session, environ>>

\* routes.py lines 234-243
ResetReste ==
    /\ admin.pc = "reset_reste"
    /\ state' = [state EXCEPT !.policies.cooldown = 120,
                              !.policies.evaluation_periods = 3,
                              !.policies.period_seconds = 60]
    /\ Repondre(200)
    /\ UNCHANGED <<now, _state, state_lock, pc, loc, alertes, va_data, va_result, fn_args, fn_result,
                   _tentatives_connexion, connexion, session, environ>>

\* one step of the administrator
Policies ==
    \/ \E scale_up \in SeuilInputs, scale_down \in SeuilInputs :
           ApiUpdatePolicies(scale_up, scale_down)
    \/ ApiEcrireDown
    \/ ApiLog
    \/ \E scale_up \in SeuilInputs, scale_down \in SeuilInputs :
           UpdatePolicies(scale_up, scale_down)
    \/ RtEcrireDown
    \/ RtLog
    \/ ResetPolicies
    \/ ResetEcrireDown
    \/ ResetReste

\* the policy routes alone
SpecPolicies == Init /\ [][Policies]_vars

----------------------------------------------------------------------------
\* The alert pipeline and the policy routes together: one thread serves the
\* alerts while the administrator sends requests, in a process started with or
\* without COOLDOWN_SECONDS in its environment

\* the environments the process is started in
Environs == { EnvironVide, {<<"COOLDOWN_SECONDS", 60>>} }

InitExploitation ==
    /\ environ \in Environs
    /\ InitProgram
    /\ va_data = NonePayload
    /\ va_result = NoResult
    /\ fn_args = NoAppel
    /\ fn_result = NoRetour
    /\ _tentatives_connexion = AucuneTentative
    /\ connexion = NoConnexion
    /\ session = SessionVide

\* the thresholds the administrator sends: valid ones, and a pair out of order
SeuilsExploitation == { NumV(Pct(90)), NumV(Pct(15)) }

\* one step of the administrator: PUT /api/policies of adapter.py or
\* POST /policies/reset of api/routes.py, MaxRequetes requests in all
Administrer ==
    \/ /\ admin.ops < MaxRequetes
       /\ \/ \E scale_up \in SeuilsExploitation, scale_down \in SeuilsExploitation :
                 ApiUpdatePolicies(scale_up, scale_down)
          \/ ResetPolicies
    \/ ApiEcrireDown
    \/ ApiLog
    \/ ResetEcrireDown
    \/ ResetReste

Exploitation ==
    \/ Tick
    \/ Etapes(Premier)
    \/ Administrer

SpecExploitation == InitExploitation /\ [][Exploitation]_vars

----------------------------------------------------------------------------
\* The journal: state["logs"] written by ajouter_log (adapter.py) and by the
\* routes of api/routes.py, which insert into it or replace it themselves

\* the journal after n more rejected alerts, each adding its entry by
\* ajouter_log: the n entries at the head, the first LOGS_MAX entries kept
apres_rejets(logs, n) ==
    LET inserted == [i \in 1..n |-> Log("warning", "Alerte rejetee")] \o logs
    IN  IF Len(inserted) > LOGS_MAX THEN SubSeq(inserted, 1, LOGS_MAX) ELSE inserted

\* the state left by LOGS_MAX alerts rejected one after the other since the
\* start of the process: they are counted and the journal holds their entries
InitApresRejets ==
    /\ now = StartTime
    /\ \E c \in BOOLEAN :
         _state = [ last_scaling_time |-> 0, current_flavor |-> "m1.small",
                    vm_id |-> "None", connected |-> c ]
    /\ state =
         [ vm |-> [ status |-> "ACTIVE", current_flavor |-> "m1.small",
                    cpu |-> Pct(0), ram |-> Pct(0), last_update |-> -1 ],
           policies |-> [ scale_up_threshold |-> Pct(80),
                          scale_down_threshold |-> Pct(20),
                          cooldown |-> getenv_int("COOLDOWN_SECONDS", 120),
                          evaluation_periods |-> 3,
                          period_seconds |-> 60 ],
           logs |-> apres_rejets(<< Log("info", "Adaptateur de metriques demarre") >>,
                                 LOGS_MAX),
           stats |-> [ alertes_recues |-> LOGS_MAX, alertes_valides |-> 0,
                       alertes_rejetees |-> LOGS_MAX, scalings_up |-> 0,
                       scalings_down |-> 0 ] ]
    /\ state_lock = "free"
    /\ pc = [h \in Threads |-> "idle"]
    /\ loc = [h \in Threads |-> LocInit]
    /\ alertes = 0
    /\ admin = [pc |-> "idle", scale_up |-> NullV, scale_down |-> NullV,
                http |-> 0, ops |-> 0]

InitJournal ==
    /\ environ = EnvironVide
    /\ InitProgram \/ InitApresRejets
    /\ va_data = NonePayload
    /\ va_result = NoResult
    /\ fn_args = NoAppel
    /\ fn_result = NoRetour
    /\ _tentatives_connexion = AucuneTentative
    /\ connexion = NoConnexion
    /\ session = SessionVide

\* the names of state["templates"]
templates_noms ==
    { "main_stack.yaml", "network_template.yaml", "vm_template.yaml",
      "autoscaling_template.yaml" }

\* the "template" of the body of POST /deploy: no body or no field ("None"),
\* an empty name, a name of the list, a name outside it
TemplateInputs == { "None", "", "main_stack.yaml", "inconnu.yaml" }

\* routes.py lines 276-309: the name is checked, the journal entry is inserted
\* without the lock and without cutting the journal
deploy_template(template_name) ==
    /\ Debut
    /\ IF template_name \in {"None", ""} \/ template_name \notin templates_noms
       THEN /\ admin' = [admin EXCEPT !.http = 400, !.ops = @ + 1]
            /\ UNCHANGED state
       ELSE /\ state' = [state EXCEPT !.logs = <<Log("success", "Deploiement lance")>> \o @]
            /\ admin' = [admin EXCEPT !.http = 200, !.ops = @ + 1]
    /\ UNCHANGED <<now, _state, state_lock, pc, loc, alertes, va_data, va_result, fn_args, fn_result,
                   _tentatives_connexion, connexion, session, environ>>

\* routes.py lines 398-409: the journal is replaced by a single entry
clear_logs ==
    /\ Debut
    /\ state' = [state EXCEPT !.logs = <<Log("info", "Journal efface par l'administrateur")>>]
    /\ admin' = [admin EXCEPT !.http = 200, !.ops = @ + 1]
    /\ UNCHANGED <<now, _state, state_lock, pc, loc, alertes, va_data, va_result, fn_args, fn_result,
                   _tentatives_connexion, connexion, session, environ>>

\* one request of the administrator that may write the journal
Journal ==
    \/ Policies
    \/ \E template_name \in TemplateInputs : deploy_template(template_name)
    \/ clear_logs

SpecJournal == InitJournal /\ [][Journal]_vars

----------------------------------------------------------------------------
\* api/auth.py: login attempts, one call of connecter_utilisateur after the
\* other, with a clock that advances between the calls

\* the identifiers of the attempts: the right ones, a wrong password, an
\* unknown user
Identifiants ==
    { [username |-> "admin", password |-> "admin123"],
      [username |-> "admin", password |-> "faux"],
      [username |-> "inconnu", password |-> "admin123"] }

\* the number of failed attempts recorded for ip
tentatives_de(tentatives_connexion, ip) ==
    IF ip \in DOMAIN tentatives_connexion THEN tentatives_connexion[ip].tentatives ELSE 0

\* time passes between two login attempts
TickConnexion ==
    /\ now < StartTime + MaxPas * PasConnexion
    /\ now' = now + PasConnexion
    /\ UNCHANGED <<_state, state, state_lock, pc, loc, alertes, admin, va_data,
                   va_result, fn_args, fn_result, _tentatives_connexion, connexion, session, environ>>

\* lines 145-194: connecter_utilisateur(username, password, ip) at time now
connecter_utilisateur(username, password, ip) ==
    /\ connexion.ops < MaxConnexions
    /\ LET blocage == est_bloque(_tentatives_connexion, ip, now)
           verifie == ~blocage.bloque
           resultat ==
               IF blocage.bloque THEN resultat_bloque(blocage.restant)
               ELSE IF username \notin DOMAIN UTILISATEURS THEN resultat_incorrect
               ELSE IF _hasher_mot_de_passe(password) # UTILISATEURS[username].password_hash
                    THEN resultat_incorrect
               ELSE resultat_reussie(UTILISATEURS[username].role)
           apres ==
               IF blocage.bloque THEN blocage.tentatives_connexion
               ELSE IF resultat.success
                    THEN reinitialiser_tentatives(blocage.tentatives_connexion, ip)
               ELSE enregistrer_tentative_echouee(blocage.tentatives_connexion, ip, now)
           avant == tentatives_de(_tentatives_connexion, ip)
       IN  /\ _tentatives_connexion' = apres
           /\ connexion' =
                [ ops |-> connexion.ops + 1, ip |-> ip, username |-> username,
                  password |-> password, avant |-> avant, verifie |-> verifie,
                  resultat |-> resultat,
                  atteinte |->
                      IF /\ tentatives_de(apres, ip) >= MAX_TENTATIVES
                         /\ avant < MAX_TENTATIVES
                      THEN [connexion.atteinte EXCEPT ![ip] = now]
                      ELSE connexion.atteinte ]
    /\ UNCHANGED <<now, _state, state, state_lock, pc, loc, alertes, admin, va_data,
                   va_result, fn_args, fn_result, session, environ>>

\* one login attempt, or time passing
Connexions ==
    \/ TickConnexion
    \/ \E i \in Identifiants, ip \in IPs :
           connecter_utilisateur(i.username, i.password, ip)

SpecConnexion == Init /\ [][Connexions]_vars

----------------------------------------------------------------------------
\* api/auth.py and api/routes.py: PUT /policies behind admin_requis, called by
\* one browser whose session is created by creer_session (auth.py) or by the
\* login route of adapter.py, one request at a time

\* time.time() counts from 1970: the clock is further from 0 than
\* SESSION_LIFETIME.  The program state is the one of InitProgram
InitSession ==
    /\ environ = EnvironVide
    /\ now = StartTime + 2 * SESSION_LIFETIME
    /\ \E c \in BOOLEAN :
         _state = [ last_scaling_time |-> 0, current_flavor |-> "m1.small",
                    vm_id |-> "None", connected |-> c ]
    /\ state =
         [ vm |-> [ status |-> "ACTIVE", current_flavor |-> "m1.small",
                    cpu |-> Pct(0), ram |-> Pct(0), last_update |-> -1 ],
           policies |-> [ scale_up_threshold |-> Pct(80),
                          scale_down_threshold |-> Pct(20),
                          cooldown |-> getenv_int("COOLDOWN_SECONDS", 120),
                          evaluation_periods |-> 3,
                          period_seconds |-> 60 ],
           logs |-> << Log("info", "Adaptateur de metriques demarre") >>,
           stats |-> [ alertes_recues |-> 0, alertes_valides |-> 0,
                       alertes_rejetees |-> 0, scalings_up |-> 0,
                       scalings_down |-> 0 ] ]
    /\ state_lock = "free"
    /\ pc = [h \in Threads |-> "idle"]
    /\ loc = [h \in Threads |-> LocInit]
    /\ alertes = 0
    /\ admin = [pc |-> "idle", scale_up |-> NullV, scale_down |-> NullV,
                http |-> 0, ops |-> 0]
    /\ va_data = NonePayload
    /\ va_result = NoResult
    /\ fn_args = NoAppel
    /\ fn_result = NoRetour
    /\ _tentatives_connexion = AucuneTentative
    /\ connexion = NoConnexion
    /\ session = SessionVide

\* the thresholds the browser sends: valid ones, and a pair out of order
SeuilsSession == { NumV(Pct(90)), NumV(Pct(15)) }

\* time passes between two requests
TickSession ==
    /\ admin.pc = "idle"
    /\ now < StartTime + 2 * SESSION_LIFETIME + MaxPasSession * PasSession
    /\ now' = now + PasSession
    /\ UNCHANGED <<_state, state, state_lock, pc, loc, alertes, admin, va_data,
                   va_result, fn_args, fn_result, _tentatives_connexion, connexion,
                   session, environ>>

\* auth.py lines 199-211: creer_session(username, role, nom_complet)
creer_session(username, role) ==
    /\ admin.pc = "idle"
    /\ session' = [cles |-> {"user", "role", "nom_complet", "login_time", "session_id"},
                   user |-> username, role |-> role, login_time |-> now]
    /\ UNCHANGED <<now, _state, state, state_lock, pc, loc, alertes, admin, va_data,
                   va_result, fn_args, fn_result, _tentatives_connexion, connexion, environ>>

\* adapter.py lines 261-270, with the right identifiers: session["user"] is
\* written, the other keys stay, the journal gets its entry, the answer is a
\* redirection
login ==
    /\ Debut
    /\ state_lock = "free"
    /\ session' = [session EXCEPT !.cles = @ \cup {"user"}, !.user = "admin"]
    /\ state' = [state EXCEPT !.logs = ajouter_log(@, "Connexion de l'utilisateur", "info")]
    /\ admin' = [admin EXCEPT !.http = 302, !.ops = @ + 1]
    /\ UNCHANGED <<now, _state, state_lock, pc, loc, alertes, va_data,
                   va_result, fn_args, fn_result, _tentatives_connexion, connexion, environ>>

\* auth.py lines 214-218: detruire_session()
detruire_session ==
    /\ admin.pc = "idle"
    /\ session' = SessionVide
    /\ UNCHANGED <<now, _state, state, state_lock, pc, loc, alertes, admin, va_data,
                   va_result, fn_args, fn_result, _tentatives_connexion, connexion, environ>>

\* admin_requis that does not look at the role
admin_requis_sans_role(scale_up, scale_down) ==
    /\ Debut
    /\ LET verdict == session_valide(session, now)
       IN  IF ~verdict.valide
           THEN /\ session' = verdict.session
                /\ admin' = [admin EXCEPT !.http = 401, !.ops = @ + 1]
                /\ UNCHANGED <<now, _state, state, state_lock, pc, loc, alertes, va_data,
                               va_result, fn_args, fn_result, _tentatives_connexion,
                               connexion, environ>>
           ELSE UpdatePolicies(scale_up, scale_down)

\* auth.py lines 293-313 around routes.update_policies: 401 without a valid
\* session, 403 without the role "admin", the handler otherwise
admin_requis(scale_up, scale_down) ==
    /\ Debut
    /\ LET verdict == session_valide(session, now)
       IN  IF ~verdict.valide
           THEN /\ session' = verdict.session
                /\ admin' = [admin EXCEPT !.http = 401, !.ops = @ + 1]
                /\ UNCHANGED <<now, _state, state, state_lock, pc, loc, alertes, va_data,
                               va_result, fn_args, fn_result, _tentatives_connexion,
                               connexion, environ>>
           ELSE IF session_get_role(session) # "admin"
                THEN /\ admin' = [admin EXCEPT !.http = 403, !.ops = @ + 1]
                     /\ UNCHANGED <<now, _state, state, state_lock, pc, loc, alertes,
                                    va_data, va_result, fn_args, fn_result,
                                    _tentatives_connexion, connexion, session, environ>>
           ELSE UpdatePolicies(scale_up, scale_down)

\* one step of the browser, of the clock, or of the handler
Sessions ==
    \/ TickSession
    \/ \E username \in {"admin", "invite"}, role \in {"admin", "viewer"} :
           creer_session(username, role)
    \/ login
    \/ detruire_session
    \/ \E scale_up \in SeuilsSession, scale_down \in SeuilsSession :
           admin_requis(scale_up, scale_down)
    \/ RtEcrireDown
    \/ RtLog

SpecSession == InitSession /\ [][Sessions]_vars

----------------------------------------------------------------------------
\* valider_alerte as a function of its argument

\* the values of each field of the alerts under test
SourceInputs ==
    { AbsentV, StrV(<<"v","m">>), StrV(<<>>), StrV(<<" ","\t">>), NumV(7) }
TokenInputs == { AbsentV, StrV(SECRET_TOKEN), StrV(<<"b","a","d">>) }
MetricInputs ==
    { AbsentV, NullV, StrV(<<"5","0">>) } \cup
    { NumV(n) : n \in { 0 - 1, 0, Pct(50), Pct(100), Pct(100) + 1 } }
TimestampInputs ==
    { AbsentV, StrV(<<"1","0">>) } \cup
    { NumV(StartTime + d) :
        d \in { 0 - RULES.max_age_seconds - 1, 0 - RULES.max_age_seconds, 0, 1 } }

\* None, and every dict over these values ({} among them)
Payloads ==
    { NonePayload } \cup
    { Dict(source, token, cpu, ram, timestamp) :
        source \in SourceInputs, token \in TokenInputs, cpu \in MetricInputs,
        ram \in MetricInputs, timestamp \in TimestampInputs }

InitValider ==
    /\ environ = EnvironVide
    /\ InitProgram
    /\ va_data \in Payloads
    /\ va_result = NoResult
    /\ fn_args = NoAppel
    /\ fn_result = NoRetour
    /\ _tentatives_connexion = AucuneTentative
    /\ connexion = NoConnexion
    /\ session = SessionVide

\* the call valider_alerte(va_data) at time now
AppelValider ==
    /\ va_result = NoResult
    /\ va_result' = valider_alerte(va_data, now)
    /\ UNCHANGED <<now, _state, state, state_lock, pc, loc, alertes, admin, va_data, fn_args, fn_result,
                   _tentatives_connexion, connexion, session, environ>>

SpecValider == InitValider /\ [][AppelValider]_vars

----------------------------------------------------------------------------
\* The decision functions and the cooldown gate as functions of their arguments

\* thresholds under test: the limits 0 and 100, the defaults, and values between
SeuilsTest == { 0, 1, Pct(20), Pct(50), Pct(80), Pct(100) - 1, Pct(100) }
\* cpu values under test: the thresholds and their neighbours
CpuTest == SeuilsTest \cup { Pct(20) - 1, Pct(20) + 1, Pct(80) - 1, Pct(80) + 1 }

\* the calls determiner_action(cpu, policies)
AppelsAction ==
    { Appel("determiner_action", cpu,
            [scale_up_threshold |-> up, scale_down_threshold |-> down], "", "", 0, 0) :
        cpu \in CpuTest, up \in SeuilsTest, down \in SeuilsTest }

\* the calls determiner_nouveau_flavor(action, flavor_actuel): the two scaling
\* actions, "none" and an unknown action; the three flavors and an unknown one
AppelsFlavor ==
    { Appel("determiner_nouveau_flavor", 0,
            [scale_up_threshold |-> 0, scale_down_threshold |-> 0],
            action, flavor_actuel, 0, 0) :
        action \in {"scale_up", "scale_down", "none", "resize"},
        flavor_actuel \in {"m1.small", "m1.medium", "m1.large", "m1.xlarge"} }

\* the calls cooldown_respecte(): no scaling yet or a scaling at StartTime, and
\* a clock from 0 s to twice the cooldown after it
AppelsCooldown ==
    { Appel("cooldown_respecte", 0,
            [scale_up_threshold |-> 0, scale_down_threshold |-> 0], "", "",
            last + ecoule, last) :
        last \in {0, StartTime},
        ecoule \in { 0, 1, COOLDOWN_SECONDS - 1, COOLDOWN_SECONDS,
                     COOLDOWN_SECONDS + 1, 2 * COOLDOWN_SECONDS } }

\* every call under test
Appels == AppelsAction \cup AppelsFlavor \cup AppelsCooldown

InitFonctions ==
    /\ environ = EnvironVide
    /\ InitProgram
    /\ va_data = NonePayload
    /\ va_result = NoResult
    /\ fn_args \in Appels
    /\ fn_result = NoRetour
    /\ _tentatives_connexion = AucuneTentative
    /\ connexion = NoConnexion
    /\ session = SessionVide

\* the function runs on its arguments; the arguments are as they were
Rendre(r) ==
    /\ ~fn_result.fait
    /\ fn_result' = r
    /\ UNCHANGED <<now, _state, state, state_lock, pc, loc, alertes, admin,
                   va_data, va_result, fn_args, _tentatives_connexion, connexion, session, environ>>

\* the call determiner_action(cpu, policies)
AppelDeterminerAction ==
    /\ fn_args.f = "determiner_action"
    /\ Rendre(RetourStr(determiner_action(fn_args.cpu, fn_args.policies)))

\* the call determiner_nouveau_flavor(action, flavor_actuel)
AppelDeterminerNouveauFlavor ==
    /\ fn_args.f = "determiner_nouveau_flavor"
    /\ Rendre(RetourStr(determiner_nouveau_flavor(fn_args.action, fn_args.flavor_actuel)))

\* the call cooldown_respecte()
AppelCooldownRespecte ==
    /\ fn_args.f = "cooldown_respecte"
    /\ Rendre(RetourBool(cooldown_respecte(fn_args.t, fn_args.last)))

Fonctions ==
    \/ AppelDeterminerAction
    \/ AppelDeterminerNouveauFlavor
    \/ AppelCooldownRespecte

SpecFonctions == InitFonctions /\ [][Fonctions]_vars

----------------------------------------------------------------------------
\* Properties of the resize executor and of the alert pipeline (Spec)

\* thread h takes the step that leaves position p
Quitte(h, p) == pc[h] = p /\ pc'[h] # p

\* the positions of _resize_openstack after confirm_resize, where _state is written
EcritureOs == {"os_ecrire", "os_fin"}

\* C1: in the real path, when the status polling ends without VERIFY_RESIZE
\* (timeout, or status ERROR), the invocation writes neither the flavor nor
\* the last scaling time and returns action "error" with success False.
C1_PollingFailureIsError ==
    \A h \in Threads :
        loc[h].attente = "False" =>
            /\ pc[h] \notin EcritureOs
            /\ pc[h] = "apres_resize" =>
                   (loc[h].resultat.action = "error" /\ ~loc[h].resultat.success)

\* C2: under any interleaving of the alert threads, a resize that commits
\* (result "resized" or "simulated") does so at least COOLDOWN_SECONDS after the
\* previous committed resize, whose time is _state["last_scaling_time"].
C2_CommitsSeparatedByCooldown ==
    [][ \A h \in Threads :
          (Quitte(h, "sim_fin") \/ Quitte(h, "os_fin")) =>
              now - _state.last_scaling_time >= COOLDOWN_SECONDS ]_vars

\* C3: effectuer_resize with a target different from the flavor it read, reaching
\* the gate less than COOLDOWN_SECONDS after the last committed resize, returns
\* action "cooldown" with success False, has called the provider for nothing
\* and leaves _state (flavor, last scaling time) as it was.
C3_CooldownBlocks ==
    [][ \A h \in Threads :
          ( /\ Quitte(h, "er_cooldown")
            /\ loc[h].nouveau_flavor # loc[h].ancien_flavor
            /\ now - _state.last_scaling_time < COOLDOWN_SECONDS )
          => /\ pc'[h] = "apres_resize"
             /\ loc'[h].resultat.action = "cooldown"
             /\ ~loc'[h].resultat.success
             /\ loc'[h].appels = {}
             /\ _state' = _state ]_vars

\* C3 witness: a request inside the cooldown window has been answered "cooldown"
C3_Witness ==
    \E h \in Threads :
        /\ pc[h] = "apres_resize"
        /\ loc[h].resultat.action = "cooldown"
        /\ loc[h].nouveau_flavor # _state.current_flavor
        /\ now - _state.last_scaling_time < COOLDOWN_SECONDS

\* C4: effectuer_resize called with the flavor the executor already has returns
\* action "none" with success True, calls the provider for nothing and leaves
\* _state as it was, connected or not, inside or outside the cooldown window.
C4_SameFlavorIsNone ==
    [][ \A h \in Threads :
          (Quitte(h, "er_entree") /\ loc[h].nouveau_flavor = _state.current_flavor)
          => /\ pc'[h] = "apres_resize"
             /\ loc'[h].resultat.action = "none"
             /\ loc'[h].resultat.success
             /\ loc'[h].resultat.ancien_flavor = _state.current_flavor
             /\ loc'[h].appels = {}
             /\ _state' = _state ]_vars

\* C4 witness: "none" has been returned by a connected executor inside the
\* cooldown window
C4_Witness ==
    \E h \in Threads :
        /\ pc[h] = "apres_resize"
        /\ loc[h].resultat.action = "none"
        /\ _state.connected
        /\ now - _state.last_scaling_time < COOLDOWN_SECONDS

\* C5: when the provider is not connected, a request to another flavor that
\* passes the gate takes the simulated path: it writes the target flavor, then
\* sets the last scaling time to the time of completion and returns action
\* "simulated" with success True; no invocation reports "error" or calls the
\* provider.
C5_SimulatedResize ==
    [][ \A h \in Threads :
          /\ ( /\ Quitte(h, "er_cooldown")
               /\ ~_state.connected
               /\ now - _state.last_scaling_time >= COOLDOWN_SECONDS )
             => pc'[h] = "sim_sleep"
          /\ Quitte(h, "sim_sleep")
             => /\ pc'[h] = "sim_fin"
                /\ _state'.current_flavor = loc[h].nouveau_flavor
          /\ Quitte(h, "sim_fin")
             => /\ pc'[h] = "apres_resize"
                /\ loc'[h].resultat.action = "simulated"
                /\ loc'[h].resultat.success
                /\ loc'[h].resultat.nouveau_flavor = loc[h].nouveau_flavor
                /\ _state'.last_scaling_time = now
                /\ _state'.current_flavor = _state.current_flavor
          /\ ~_state.connected
             => /\ loc'[h].resultat.action # "error"
                /\ loc'[h].appels = {} ]_vars

\* C5 witness: a simulated resize has just completed
C5_Witness ==
    \E h \in Threads :
        /\ pc[h] = "apres_resize"
        /\ loc[h].resultat.action = "simulated"
        /\ ~_state.connected
        /\ _state.current_flavor = loc[h].nouveau_flavor
        /\ _state.current_flavor # loc[h].ancien_flavor
        /\ _state.last_scaling_time = now

\* C6: state["vm"]["current_flavor"] changes only in the step of a thread whose
\* call of effectuer_resize returned "resized" or "simulated", and then to the
\* flavor that thread asked for.
C6_FlavorChangesOnlyOnCommit ==
    [][ state'.vm.current_flavor # state.vm.current_flavor =>
          \E h \in Threads :
              /\ Quitte(h, "apres_resize")
              /\ loc[h].resultat.action \in {"resized", "simulated"}
              /\ state'.vm.current_flavor = loc[h].nouveau_flavor ]_vars

\* C6 witness: the shared flavor has been changed by a committed resize
C6_Witness ==
    \E h \in Threads :
        /\ pc[h] = "log_scale"
        /\ state.vm.current_flavor = loc[h].nouveau_flavor
        /\ state.vm.current_flavor # loc[h].flavor_actuel

----------------------------------------------------------------------------
\* Properties of the policy routes (SpecPolicies)

\* C7: after any sequence of policy requests the stored thresholds satisfy
\* 0 < scale_down_threshold < scale_up_threshold < 100, and a refused request
\* leaves the policy as it was.
C7_PolicyInvariant ==
    [][ /\ admin'.pc = "idle" =>
              seuils_valides(state'.policies.scale_up_threshold,
                             state'.policies.scale_down_threshold)
        /\ admin'.http \in {400, 500} => state'.policies = state.policies ]_vars

----------------------------------------------------------------------------
\* Properties of valider_alerte (SpecValider)

\* the checks of valider_alerte, in the order the specification gives
Controles ==
    << "vide", "source", "token", "cpu", "ram", "timestamp", "jeton",
       "cpu_nombre", "cpu_limites", "ram_nombre", "ram_limites", "fraicheur",
       "source_vide" >>

DansLimites(v) == IsNumber(v) /\ Pct(0) <= v.n /\ v.n <= Pct(100)
HorsLimites(v) == IsNumber(v) /\ (v.n < Pct(0) \/ v.n > Pct(100))

\* the alert fails the check
Echoue(controle, data, t) ==
    CASE controle = "vide" -> ~Truthy(data)
      [] controle \in {"source", "token", "cpu", "ram", "timestamp"} -> ~Has(data, controle)
      [] controle = "jeton" -> data.f.token # StrV(SECRET_TOKEN)
      [] controle = "cpu_nombre" -> ~IsNumber(data.f.cpu)
      [] controle = "cpu_limites" -> ~DansLimites(data.f.cpu)
      [] controle = "ram_nombre" -> ~IsNumber(data.f.ram)
      [] controle = "ram_limites" -> ~DansLimites(data.f.ram)
      [] controle = "fraicheur" ->
             ~( /\ IsNumber(data.f.timestamp)
                /\ 0 <= t - data.f.timestamp.n
                /\ t - data.f.timestamp.n <= RULES.max_age_seconds )
      [] controle = "source_vide" ->
             ~(IsStr(data.f.source) /\ Len(strip(data.f.source.s)) > 0)

\* the reasons with which the check rejects
Raisons(controle) ==
    CASE controle = "vide" -> {"Donnees vides"}
      [] controle \in {"source", "token", "cpu", "ram", "timestamp"} ->
             {"Champ obligatoire manquant : " \o controle}
      [] controle = "jeton" -> {"Token d'authentification invalide"}
      [] controle = "cpu_nombre" -> {"La valeur CPU doit etre un nombre"}
      [] controle = "cpu_limites" -> {"CPU hors limites"}
      [] controle = "ram_nombre" -> {"La valeur RAM doit etre un nombre"}
      [] controle = "ram_limites" -> {"RAM hors limites"}
      [] controle = "fraicheur" ->
             {"Alerte trop ancienne", "Timestamp invalide : date dans le futur"}
      [] controle = "source_vide" -> {"Source non identifiee"}

\* the position of the first check the alert fails, 0 when it fails none
PremierEchec(data, t) ==
    IF \E i \in DOMAIN Controles : Echoue(Controles[i], data, t)
    THEN CHOOSE i \in DOMAIN Controles :
             /\ Echoue(Controles[i], data, t)
             /\ \A j \in 1..(i - 1) : ~Echoue(Controles[j], data, t)
    ELSE 0

\* C8: an alert that fails one or several checks is rejected with the reason of
\* the first check it fails, in the order: empty, missing field (source, token,
\* cpu, ram, timestamp), token, cpu number and range, ram number and range,
\* freshness, source.
C8_FirstFailingCheck ==
    (va_result # NoResult /\ PremierEchec(va_data, now) # 0) =>
        /\ va_result.exception = "none"
        /\ ~va_result.valide
        /\ va_result.raison \in Raisons(Controles[PremierEchec(va_data, now)])

\* C9: for every payload, valider_alerte returns a (valide, raison) pair and
\* raises no exception.
C9_NoException ==
    va_result # NoResult => va_result.exception = "none"

\* C10: every alert whose cpu or ram is outside [0, 100] is rejected with a
\* numeric-range reason.
C10_OutOfRangeReason ==
    ( /\ va_result # NoResult
      /\ HorsLimites(va_data.f.cpu) \/ HorsLimites(va_data.f.ram) )
    => /\ va_result.exception = "none"
       /\ ~va_result.valide
       /\ va_result.raison \in {"CPU hors limites", "RAM hors limites"}

\* C10 amended: every alert whose cpu or ram is outside [0, 100] is rejected;
\* when its five fields are present, its token is the secret and its cpu is a
\* number, the reason is the numeric-range reason: "CPU hors limites" when cpu
\* is outside, "RAM hors limites" otherwise.
C10_OutOfRangeRejected ==
    ( /\ va_result # NoResult
      /\ HorsLimites(va_data.f.cpu) \/ HorsLimites(va_data.f.ram) )
    => /\ va_result.exception = "none"
       /\ ~va_result.valide
       /\ ( /\ champ_manquant(va_data, 1) = ""
            /\ va_data.f.token = StrV(SECRET_TOKEN)
            /\ IsNumber(va_data.f.cpu) )
          => va_result.raison =
                 IF HorsLimites(va_data.f.cpu) THEN "CPU hors limites"
                 ELSE "RAM hors limites"

\* C10 witness: an alert with a valid cpu and a ram above 100 has been rejected
\* for its ram
C10_Witness ==
    /\ va_result = Retour(FALSE, "RAM hors limites")
    /\ DansLimites(va_data.f.cpu)
    /\ va_data.f.ram.n > Pct(100)

\* the alert passes the presence, token and metric-range checks (steps 1 to 5)
PasseJusquAuxLimites(data) ==
    /\ champ_manquant(data, 1) = ""
    /\ data.f.token = StrV(SECRET_TOKEN)
    /\ DansLimites(data.f.cpu)
    /\ DansLimites(data.f.ram)

\* the result is one that valider_alerte gives after the freshness check passed
FraicheurAcceptee(resultat) ==
    /\ resultat.exception = "none"
    /\ resultat.raison \in {"OK", "Source non identifiee"}

\* C11: for an alert that passes the presence, token and metric-range checks,
\* the freshness check accepts exactly when the timestamp is a number with
\* 0 <= now - timestamp <= max_age_seconds, both bounds included; an age above
\* max_age_seconds is rejected as too old, a negative age as a future timestamp.
C11_FreshnessBounds ==
    (va_result # NoResult /\ PasseJusquAuxLimites(va_data)) =>
        LET timestamp == va_data.f.timestamp
            age == now - timestamp.n
        IN  /\ FraicheurAcceptee(va_result) <=>
                   ( /\ IsNumber(timestamp)
                     /\ 0 <= age
                     /\ age <= RULES.max_age_seconds )
            /\ (IsNumber(timestamp) /\ age > RULES.max_age_seconds)
                   => va_result = Retour(FALSE, "Alerte trop ancienne")
            /\ (IsNumber(timestamp) /\ age < 0)
                   => va_result = Retour(FALSE, "Timestamp invalide : date dans le futur")

\* C11 witness: an alert of exactly the maximum age has been accepted
C11_Witness ==
    /\ va_result = Retour(TRUE, "OK")
    /\ IsNumber(va_data.f.timestamp)
    /\ now - va_data.f.timestamp.n = RULES.max_age_seconds

\* C12: every non-empty alert whose token is not the secret is rejected,
\* whatever its cpu, ram, timestamp and source; when its five fields are present
\* the reason is the invalid-token reason.
C12_TokenMismatchRejected ==
    ( /\ va_result # NoResult
      /\ Truthy(va_data)
      /\ va_data.f.token # StrV(SECRET_TOKEN) )
    => /\ va_result.exception = "none"
       /\ ~va_result.valide
       /\ champ_manquant(va_data, 1) = ""
              => va_result.raison = "Token d'authentification invalide"

\* C12 witness: an alert valid in everything but its token has been rejected
\* for its token
C12_Witness ==
    /\ va_result = Retour(FALSE, "Token d'authentification invalide")
    /\ va_data.f.token = StrV(<<"b","a","d">>)
    /\ DansLimites(va_data.f.cpu)
    /\ DansLimites(va_data.f.ram)
    /\ va_data.f.timestamp = NumV(now)
    /\ va_data.f.source = StrV(<<"v","m">>)

----------------------------------------------------------------------------
\* Properties of the decision functions and of the cooldown gate (SpecFonctions)

\* C13: for every cpu in [0, 100] and every policy with
\* 0 < scale_down_threshold < scale_up_threshold < 100, determiner_action
\* returns "scale_up" iff cpu > scale_up_threshold, "scale_down" iff
\* cpu < scale_down_threshold and "none" otherwise, so that a cpu equal to a
\* threshold gives "none"; the call leaves the policy as it was.
C13_DecisionByThresholds ==
    [][ ( /\ fn_args.f = "determiner_action"
          /\ fn_result' # fn_result
          /\ 0 <= fn_args.cpu /\ fn_args.cpu <= Pct(100)
          /\ seuils_valides(fn_args.policies.scale_up_threshold,
                            fn_args.policies.scale_down_threshold) )
        => /\ fn_result'.s = "scale_up"
                  <=> fn_args.cpu > fn_args.policies.scale_up_threshold
           /\ fn_result'.s = "scale_down"
                  <=> fn_args.cpu < fn_args.policies.scale_down_threshold
           /\ fn_result'.s = "none"
                  <=> ( /\ fn_args.cpu <= fn_args.policies.scale_up_threshold
                        /\ fn_args.cpu >= fn_args.policies.scale_down_threshold )
           /\ fn_args'.policies = fn_args.policies ]_vars

\* C13 witness: a cpu equal to the scale-up threshold of a valid policy has
\* been decided "none"
C13_Witness ==
    /\ fn_args.f = "determiner_action"
    /\ seuils_valides(fn_args.policies.scale_up_threshold,
                      fn_args.policies.scale_down_threshold)
    /\ fn_args.cpu = fn_args.policies.scale_up_threshold
    /\ fn_result = RetourStr("none")

\* the flavors in increasing order of size
Catalogue == << "m1.small", "m1.medium", "m1.large" >>
\* the position of a flavor of the catalogue
Position(flavor) == CHOOSE i \in DOMAIN Catalogue : Catalogue[i] = flavor

\* C14: for every flavor of the catalogue, determiner_nouveau_flavor with
\* "scale_up" returns the flavor one position higher, or the same flavor at the
\* last position; with "scale_down" the flavor one position lower, or the same
\* flavor at the first position; it always returns a flavor of the catalogue.
C14_OneTierAtATime ==
    ( /\ fn_args.f = "determiner_nouveau_flavor"
      /\ fn_result.fait
      /\ \E i \in DOMAIN Catalogue : Catalogue[i] = fn_args.flavor_actuel
      /\ fn_args.action \in {"scale_up", "scale_down"} )
    => LET i == Position(fn_args.flavor_actuel)
       IN  /\ \E j \in DOMAIN Catalogue : Catalogue[j] = fn_result.s
           /\ fn_args.action = "scale_up" =>
                  Position(fn_result.s) = IF i = Len(Catalogue) THEN i ELSE i + 1
           /\ fn_args.action = "scale_down" =>
                  Position(fn_result.s) = IF i = 1 THEN i ELSE i - 1

\* C14 witness: scale_up from the first flavor has given the second one
C14_Witness ==
    /\ fn_args.f = "determiner_nouveau_flavor"
    /\ fn_args.action = "scale_up"
    /\ fn_args.flavor_actuel = "m1.small"
    /\ fn_result = RetourStr("m1.medium")

\* C15: cooldown_respecte() returns True iff time.time() minus
\* _state["last_scaling_time"] is at least COOLDOWN_SECONDS: False for every
\* elapsed time strictly below, True at exactly COOLDOWN_SECONDS and above; the
\* call leaves the last scaling time as it was.
C15_GateAllowsAtCooldown ==
    [][ (fn_args.f = "cooldown_respecte" /\ fn_result' # fn_result)
        => /\ fn_result'.b <=> (fn_args.t - fn_args.last >= COOLDOWN_SECONDS)
           /\ fn_args'.last = fn_args.last
           /\ _state'.last_scaling_time = _state.last_scaling_time ]_vars

\* C15 witness: the gate has allowed a resize exactly COOLDOWN_SECONDS after
\* the last one
C15_Witness ==
    /\ fn_args.f = "cooldown_respecte"
    /\ fn_args.t - fn_args.last = COOLDOWN_SECONDS
    /\ fn_result = RetourBool(TRUE)

----------------------------------------------------------------------------
\* Properties of alerts handled one after the other (SpecSequentiel)

\* less than COOLDOWN_SECONDS have passed since the last committed resize
DansFenetre == now - _state.last_scaling_time < COOLDOWN_SECONDS

\* C16: after a committed scale-up, a later valid alert with cpu above the
\* scale-up threshold, handled before the cooldown has elapsed, is decided
\* "scale_up" and its resize returns "cooldown"; state["vm"]["current_flavor"]
\* and _state["current_flavor"] stay at the flavor the first alert reached.
C16_SecondScaleUpIsCooldown ==
    [][ \A h \in Threads :
          /\ ( /\ Quitte(h, "decider")
               /\ loc[h].data.f.cpu.n > state.policies.scale_up_threshold )
             => loc'[h].action = "scale_up"
          /\ (Quitte(h, "er_entree") /\ loc[h].action = "scale_up" /\ DansFenetre)
             => pc'[h] = "er_cooldown"
          /\ (Quitte(h, "er_cooldown") /\ loc[h].action = "scale_up" /\ DansFenetre)
             => /\ loc'[h].resultat.action = "cooldown"
                /\ _state' = _state
          /\ ( /\ Quitte(h, "apres_resize")
               /\ loc[h].action = "scale_up"
               /\ loc[h].resultat.action = "cooldown" )
             => /\ state'.vm.current_flavor = state.vm.current_flavor
                /\ state.vm.current_flavor = _state.current_flavor ]_vars

\* C16 amended: as C16 when the flavor reached is not the last one; when it is
\* m1.large, the target of the later alert is m1.large again and its resize
\* returns "none" with success True; both flavors stay in either case.
C16_SecondScaleUpIsCooldownOrNone ==
    [][ \A h \in Threads :
          /\ ( /\ Quitte(h, "decider")
               /\ loc[h].data.f.cpu.n > state.policies.scale_up_threshold )
             => loc'[h].action = "scale_up"
          /\ (Quitte(h, "er_entree") /\ loc[h].action = "scale_up" /\ DansFenetre)
             => IF _state.current_flavor = "m1.large"
                THEN /\ pc'[h] = "apres_resize"
                     /\ loc'[h].resultat.action = "none"
                     /\ loc'[h].resultat.success
                     /\ _state' = _state
                ELSE pc'[h] = "er_cooldown"
          /\ (Quitte(h, "er_cooldown") /\ loc[h].action = "scale_up" /\ DansFenetre)
             => /\ loc'[h].resultat.action = "cooldown"
                /\ _state' = _state
          /\ ( /\ Quitte(h, "apres_resize")
               /\ loc[h].action = "scale_up"
               /\ loc[h].resultat.action \in {"cooldown", "none"} )
             => /\ state'.vm.current_flavor = state.vm.current_flavor
                /\ state.vm.current_flavor = _state.current_flavor ]_vars

\* C16 witness: after a committed scale-up to m1.medium, a second scale-up
\* alert inside the cooldown window has been answered "cooldown"
C16_Witness ==
    /\ pc[Premier] = "apres_resize"
    /\ loc[Premier].action = "scale_up"
    /\ loc[Premier].nouveau_flavor = "m1.large"
    /\ loc[Premier].resultat.action = "cooldown"
    /\ DansFenetre
    /\ state.stats.scalings_up >= 1
    /\ _state.current_flavor = "m1.medium"
    /\ state.vm.current_flavor = "m1.medium"

----------------------------------------------------------------------------
\* Properties of the alert pipeline under concurrent alerts (Spec)

\* an alert with its five fields whose token is not the secret
MauvaisJeton(data) ==
    /\ data.kind = "dict"
    /\ champ_manquant(data, 1) = ""
    /\ data.f.token # StrV(SECRET_TOKEN)

\* C17: the handling of an alert whose token does not match adds one to
\* alertes_recues and one to alertes_rejetees (and writes the rejection in the
\* journal); alertes_valides, scalings_up, scalings_down, the cpu and ram of
\* state["vm"], its flavor and _state (flavor, last scaling time) are left as
\* they were, and effectuer_resize is not called.
C17_BadTokenFrame ==
    [][ \A h \in Threads :
          /\ (Quitte(h, "idle") /\ MauvaisJeton(loc'[h].data))
             => /\ pc'[h] = "valider"
                /\ state' = [state EXCEPT !.stats.alertes_recues = @ + 1]
                /\ _state' = _state
          /\ (pc[h] # "idle" /\ pc'[h] # pc[h] /\ MauvaisJeton(loc[h].data))
             => /\ _state' = _state
                /\ loc'[h].appels = {}
                /\ state'.vm = state.vm
                /\ state'.policies = state.policies
                /\ state'.stats.alertes_recues = state.stats.alertes_recues
                /\ state'.stats.alertes_valides = state.stats.alertes_valides
                /\ state'.stats.scalings_up = state.stats.scalings_up
                /\ state'.stats.scalings_down = state.stats.scalings_down
                /\ CASE pc[h] = "valider" ->
                            pc'[h] = "rejeter" /\ state' = state
                     [] pc[h] = "rejeter" ->
                            /\ pc'[h] = "log_rejet"
                            /\ state'.stats.alertes_rejetees =
                                   state.stats.alertes_rejetees + 1
                            /\ state'.logs = state.logs
                     [] pc[h] = "log_rejet" ->
                            /\ pc'[h] = "done"
                            /\ loc'[h].http = 400
                            /\ state'.stats = state.stats
                     [] pc[h] = "done" ->
                            pc'[h] = "idle" /\ state' = state
                     [] OTHER -> FALSE ]_vars

\* C17 witness: an alert with a wrong token has been rejected and counted
C17_Witness ==
    \E h \in Threads :
        /\ pc[h] = "done"
        /\ MauvaisJeton(loc[h].data)
        /\ loc[h].http = 400
        /\ state.stats.alertes_recues = 1
        /\ state.stats.alertes_rejetees = 1
        /\ state.stats.alertes_valides = 0

\* the executor and the shared state agree on the committed resizes: same
\* flavor, and a last scaling time only once a scaling has been counted
Coherent ==
    /\ _state.current_flavor = state.vm.current_flavor
    /\ _state.last_scaling_time > 0
           => state.stats.scalings_up + state.stats.scalings_down > 0

\* thread g reads the flavor or the last scaling time in this step
Lit(g) ==
    \/ Quitte(g, "lire_flavor")
    \/ Quitte(g, "er_entree")
    \/ Quitte(g, "er_cooldown")
    \/ Quitte(g, "emettre")

\* C18: the flavor written by a committed resize, its scaling counter and its
\* last scaling time change as one unit: no handler reads a state in which
\* _state (flavor or last scaling time) has advanced for a resize while
\* state["vm"]["current_flavor"] and the scaling counter have not.
C18_CommitIsAtomic ==
    [][ \A g \in Threads : Lit(g) => Coherent ]_vars

\* the positions of a thread inside effectuer_resize
DansEffectuerResize ==
    { "er_entree", "er_cooldown", "sim_sleep", "sim_fin", "os_vm_id", "os_flavors",
      "os_get", "os_resize", "attendre", "dormir", "os_confirm", "os_ecrire",
      "os_fin" }

\* C19: a thread inside effectuer_resize (provider calls, status polling,
\* confirmation, simulated delay) does not hold state_lock, and while it is
\* there another thread that has a valid alert can write the cpu and ram of
\* state["vm"].
C19_NoLockAcrossResize ==
    \A h \in Threads :
        pc[h] \in DansEffectuerResize =>
            /\ state_lock # h
            /\ \A g \in Threads \ {h} :
                   pc[g] = "maj_metriques" => ENABLED MajMetriques(g)

\* C19 witness: while one thread sleeps inside a resize, a later alert of the
\* other thread has updated the metrics
C19_Witness ==
    \E h \in Threads, g \in Threads :
        /\ h # g
        /\ pc[h] \in {"sim_sleep", "dormir"}
        /\ pc[g] = "lire_seuil"
        /\ loc[g].data.f.timestamp.n > loc[h].data.f.timestamp.n
        /\ loc[g].data.f.cpu.n # loc[h].data.f.cpu.n
        /\ state.vm.cpu = loc[g].data.f.cpu.n
        /\ state.vm.last_update = strftime_HMS(now)

\* the positions of _resize_openstack at which a provider call is made
AppelsFournisseur ==
    { "os_vm_id", "os_flavors", "os_get", "os_resize", "attendre", "os_confirm" }

C21_OutcomeShape ==
    [][ \A h \in Threads :
          /\ Quitte(h, "er_entree")
             => loc'[h].ancien_flavor = _state.current_flavor
          /\ (pc[h] \in DansEffectuerResize /\ pc'[h] \notin DansEffectuerResize)
             => /\ pc'[h] = "apres_resize"
                /\ loc'[h].resultat.action \in
                       {"none", "cooldown", "resized", "simulated", "error"}
                /\ loc'[h].resultat.success
                       <=> loc'[h].resultat.action \in {"none", "resized", "simulated"}
                /\ loc'[h].resultat.ancien_flavor = loc'[h].ancien_flavor
                /\ loc'[h].ancien_flavor = loc[h].ancien_flavor \/ pc[h] = "er_entree"
                /\ loc'[h].resultat.nouveau_flavor = loc[h].nouveau_flavor ]_vars

\* C21 witness: a resize has returned "error" with both flavors reported
C21_Witness ==
    \E h \in Threads :
        /\ pc[h] = "apres_resize"
        /\ loc[h].resultat.action = "error"
        /\ ~loc[h].resultat.success
        /\ loc[h].resultat.ancien_flavor = "m1.small"
        /\ loc[h].resultat.nouveau_flavor = "m1.medium"

\* C22: in the real path, confirm_resize is called only after a status poll of
\* the same invocation has returned VERIFY_RESIZE, never after the polling
\* timed out or the server reported ERROR.
C22_ConfirmOnlyWhenReady ==
    \A h \in Threads :
        "confirm_resize" \in loc[h].appels => loc[h].attente = "True"

\* C23: in the real path the resize is submitted only once the id of the VM is
\* known and flavors.list has given the target flavor; when the VM or the
\* flavor is not found the invocation returns "error", has submitted no resize
\* and leaves _state["current_flavor"] and _state["last_scaling_time"] as they
\* were.
C23_SubmitAfterResolution ==
    [][ \A h \in Threads :
          /\ Quitte(h, "os_resize")
             => /\ _state.vm_id # "None"
                /\ "flavors.list" \in loc[h].appels
                /\ "servers.get" \in loc[h].appels
          /\ (pc[h] \in {"os_vm_id", "os_flavors"} /\ pc'[h] = "apres_resize")
             => /\ loc'[h].resultat.action = "error"
                /\ ~loc'[h].resultat.success
                /\ "resize" \notin loc'[h].appels
                /\ _state'.current_flavor = _state.current_flavor
                /\ _state'.last_scaling_time = _state.last_scaling_time ]_vars

\* C23 witness: the target flavor was not found and the invocation has
\* returned "error" without submitting a resize
C23_Witness ==
    \E h \in Threads :
        /\ pc[h] = "apres_resize"
        /\ loc[h].resultat =
               resultat_error("Flavor introuvable", loc[h].ancien_flavor,
                              loc[h].nouveau_flavor)
        /\ loc[h].appels = {"servers.list", "flavors.list"}
        /\ _state.current_flavor = loc[h].ancien_flavor
        /\ _state.last_scaling_time = 0

----------------------------------------------------------------------------
\* Properties of the alert pipeline with an advancing clock (SpecVivace)

\* C24: every invocation of effectuer_resize returns, given that the clock
\* advances and the provider answers: the polling loop of the real path is left
\* once POLL_TIMEOUT seconds have passed since it started, whatever status the
\* server keeps reporting, and the resize is submitted once per invocation.
C24_ResizeTerminates ==
    /\ \A h \in Threads :
           (pc[h] \in DansEffectuerResize) ~> (pc[h] = "apres_resize")
    /\ [][ \A h \in Threads :
             /\ (Quitte(h, "attendre") /\ now - loc[h].debut >= POLL_TIMEOUT)
                => pc'[h] = "os_confirm"
             /\ (pc'[h] = "os_resize" /\ pc[h] # "os_resize")
                => pc[h] = "os_get" ]_vars

\* C24 witness: the status stayed RESIZE and the polling loop has been left on
\* its timeout
C24_Witness ==
    \E h \in Threads :
        /\ pc[h] = "os_confirm"
        /\ loc[h].attente = "False"
        /\ now - loc[h].debut >= POLL_TIMEOUT

C26_MetricsOnlyFromValidAlert ==
    [][ /\ ( \/ state'.vm.cpu # state.vm.cpu
             \/ state'.vm.ram # state.vm.ram
             \/ state'.vm.last_update # state.vm.last_update )
           => \E h \in Threads :
                  /\ Quitte(h, "maj_metriques")
                  /\ loc[h].verdict.valide
                  /\ loc[h].verdict.exception = "none"
                  /\ valider_alerte(loc[h].data, now).valide
                  /\ state'.vm.cpu = loc[h].data.f.cpu.n
                  /\ state'.vm.ram = loc[h].data.f.ram.n
        /\ \A h \in Threads :
              ( /\ pc'[h] # pc[h]
                /\ \/ pc'[h] = "rejeter"
                   \/ pc[h] \in {"rejeter", "log_rejet"}
                   \/ loc'[h].http \in {400, 500} )
              => /\ state'.vm.cpu = state.vm.cpu
                 /\ state'.vm.ram = state.vm.ram
                 /\ state'.vm.last_update = state.vm.last_update ]_vars

\* C26 witness: an accepted alert with cpu 85 was handled after a rejected one,
\* and the observed metrics are those of the accepted alert
C26_Witness ==
    \E h \in Threads :
        /\ pc[h] = "lire_seuil"
        /\ loc[h].verdict.valide
        /\ loc[h].data.f.cpu.n = Pct(85)
        /\ state.vm.cpu = Pct(85)
        /\ state.vm.ram = Pct(40)
        /\ state.vm.last_update = strftime_HMS(now)
        /\ state.stats.alertes_rejetees = 1

\* C27: determiner_nouveau_flavor(action, flavor_actuel) returns flavor_actuel
\* itself when flavor_actuel is not a flavor of the catalogue or when action is
\* neither "scale_up" nor "scale_down"; the call returns a value in each of
\* these cases.
C27_UnknownTierOrActionUnchanged ==
    /\ ( /\ fn_args.f = "determiner_nouveau_flavor"
         /\ fn_result.fait
         /\ \/ \A i \in DOMAIN Catalogue : Catalogue[i] # fn_args.flavor_actuel
            \/ fn_args.action \notin {"scale_up", "scale_down"} )
       => fn_result = RetourStr(fn_args.flavor_actuel)
    /\ ( fn_args.f = "determiner_nouveau_flavor" /\ ~fn_result.fait )
       => ENABLED AppelDeterminerNouveauFlavor

\* C27 witness: scale_up from a flavor outside the catalogue has returned that
\* flavor
C27_Witness ==
    /\ fn_args.f = "determiner_nouveau_flavor"
    /\ fn_args.action = "scale_up"
    /\ fn_args.flavor_actuel = "m1.xlarge"
    /\ fn_result = RetourStr("m1.xlarge")

\* C28: state["logs"] never holds more than LOGS_MAX entries, whatever the
\* journal-writing operations that ran: ajouter_log, update_policies and
\* deploy_template of routes.py.
C28_JournalAtMostFifty == Len(state.logs) <= LOGS_MAX

----------------------------------------------------------------------------
\* Properties of the login attempts (SpecConnexion)

\* C29: once the number of failed attempts of an IP has reached MAX_TENTATIVES,
\* every call of connecter_utilisateur for that IP made less than BLOCAGE_DUREE
\* seconds after the time the number was reached returns "bloque" True,
\* whatever the identifiers.
C29_BlockedForLockoutDuration ==
    [][ ( /\ connexion'.ops # connexion.ops
          /\ connexion.atteinte[connexion'.ip] # -1
          /\ now - connexion.atteinte[connexion'.ip] < BLOCAGE_DUREE )
        => /\ connexion'.resultat.bloque
           /\ ~connexion'.resultat.success ]_vars

\* C30: a call of connecter_utilisateur that succeeds leaves no record of
\* failed attempts for its IP, so that the first failure after it is counted as
\* the first; a call that returns "bloque" True has not compared the
\* identifiers with UTILISATEURS and leaves _tentatives_connexion as it was.
C30_SuccessClearsBlockedIsInert ==
    [][ connexion'.ops # connexion.ops
        => LET ip == connexion'.ip
               resultat == connexion'.resultat
           IN  /\ resultat.success
                  => /\ ip \notin DOMAIN _tentatives_connexion'
                     /\ connexion'.verifie
               /\ ( /\ ~resultat.success
                    /\ ~resultat.bloque
                    /\ connexion.resultat.success
                    /\ connexion.ip = ip )
                  => _tentatives_connexion'[ip].tentatives = 1
               /\ resultat.bloque
                  => /\ ~connexion'.verifie
                     /\ ~resultat.success
                     /\ _tentatives_connexion' = _tentatives_connexion ]_vars

\* C30 witness: an IP with failed attempts on record has logged in with the
\* right identifiers and its record is gone
C30_Witness ==
    /\ connexion.resultat.success
    /\ connexion.avant >= 1
    /\ connexion.avant < MAX_TENTATIVES
    /\ connexion.ip \notin DOMAIN _tentatives_connexion

\* C30 witness of the refusal: a blocked IP has given the right identifiers
\* and was refused, its MAX_TENTATIVES failed attempts still on record
C30_WitnessBloque ==
    /\ connexion.resultat.bloque
    /\ ~connexion.verifie
    /\ connexion.username = "admin"
    /\ connexion.password = "admin123"
    /\ _tentatives_connexion[connexion.ip].tentatives = MAX_TENTATIVES

----------------------------------------------------------------------------
\* Properties of the administrator routes (SpecSession)

\* the session holds a user and is not older than SESSION_LIFETIME
SessionEnCours ==
    /\ "user" \in session.cles
    /\ now - session_get_login_time(session) <= SESSION_LIFETIME

\* C31: update_policies behind admin_requis runs only when the session holds a
\* user, time.time() - login_time <= SESSION_LIFETIME and the role is "admin";
\* without a user or with an expired session the answer is 401 (and the expired
\* session is cleared), with a session in force whose role is not "admin" the
\* answer is 403, and in both refusals state and _state are as they were.
C31_AdminRequis ==
    [][ (admin'.ops # admin.ops /\ admin'.http # 302)
        => /\ admin'.http \notin {401, 403}
              => /\ SessionEnCours
                 /\ session_get_role(session) = "admin"
                 /\ session' = session
           /\ ~SessionEnCours
              => /\ admin'.http = 401
                 /\ admin'.pc = "idle"
                 /\ state' = state
                 /\ _state' = _state
                 /\ "user" \in session.cles => session' = SessionVide
                 /\ "user" \notin session.cles => session' = session
           /\ (SessionEnCours /\ session_get_role(session) # "admin")
              => /\ admin'.http = 403
                 /\ admin'.pc = "idle"
                 /\ state' = state
                 /\ _state' = _state
                 /\ session' = session ]_vars

\* C31 witness: a session created for the role "viewer" and still in force has
\* been refused with 403, the policy as it was at the start
C31_Witness ==
    /\ admin.http = 403
    /\ admin.ops >= 1
    /\ session.role = "viewer"
    /\ "user" \in session.cles
    /\ now - session.login_time = SESSION_LIFETIME
    /\ state.policies.scale_up_threshold = Pct(80)

\* C31 witness of the expiry: a request was refused with 401 and the session,
\* older than SESSION_LIFETIME, is cleared
C31_WitnessExpiree ==
    /\ admin.http = 401
    /\ admin.ops = 2
    /\ session = SessionVide
    /\ state.policies.scale_up_threshold = Pct(90)

----------------------------------------------------------------------------
\* Conservation properties of the alert pipeline (Spec)

\* C32: whenever no thread is handling an alert, alertes_recues equals
\* alertes_valides + alertes_rejetees, whatever the payloads received (a null
\* body among them) and the interleaving of the threads.
C32_AccountingConserved ==
    (\A h \in Threads : pc[h] = "idle")
    => state.stats.alertes_recues =
           state.stats.alertes_valides + state.stats.alertes_rejetees

\* C33: whenever no thread is handling an alert, state["vm"]["current_flavor"]
\* of adapter.py equals _state["current_flavor"] of heat_client.py, whatever
\* the alerts received and the interleaving of the threads.
C33_TiersAgree ==
    (\A h \in Threads : pc[h] = "idle")
    => state.vm.current_flavor = _state.current_flavor

\* the distance between two flavors of the catalogue
Ecart(a, b) ==
    IF Position(a) >= Position(b) THEN Position(a) - Position(b)
    ELSE Position(b) - Position(a)

\* C34: _state["current_flavor"] is always a flavor of the catalogue, and each
\* write of it by a resize that commits (lines 277 and 352 of heat_client.py)
\* gives the flavor one position above or below the one it replaces, whatever
\* the interleaving of the threads.
C34_OneStepFromCurrent ==
    [][ /\ \E i \in DOMAIN Catalogue : Catalogue[i] = _state'.current_flavor
        /\ \A h \in Threads :
              (Quitte(h, "sim_sleep") \/ Quitte(h, "os_ecrire"))
              => Ecart(_state'.current_flavor, _state.current_flavor) = 1 ]_vars

\* C35: recevoir_alerte adds a journal entry of type "error" only when
\* effectuer_resize returned action "error"; on action "none" (scale_up from the
\* last flavor, scale_down from the first) it adds no entry of type "error",
\* and on action "cooldown" the entry it adds is of type "info".
C35_ErrorEntryOnlyOnError ==
    [][ \A h \in Threads :
          Quitte(h, "apres_resize")
          => LET resultat == loc[h].resultat
                 ajoute == state'.logs # state.logs
             IN  /\ (ajoute /\ Head(state'.logs).type = "error")
                    => resultat.action = "error"
                 /\ resultat.action = "none"
                    => ~(ajoute /\ Head(state'.logs).type = "error")
                 /\ resultat.action = "cooldown"
                    => (ajoute /\ Head(state'.logs).type = "info") ]_vars

----------------------------------------------------------------------------
\* Properties of the pipeline run together with the policy routes
\* (SpecExploitation)

\* C36: whatever policy updates and resets came before, effectuer_resize
\* returns action "cooldown" at its gate exactly when time.time() minus
\* _state["last_scaling_time"] is below state["policies"]["cooldown"].
C36_GateUsesPolicyCooldown ==
    [][ \A h \in Threads :
          Quitte(h, "er_cooldown")
          => ( (pc'[h] = "apres_resize" /\ loc'[h].resultat.action = "cooldown")
               <=> now - _state.last_scaling_time < state.policies.cooldown ) ]_vars

\* the thresholds of state["policies"] before the first policy request
PaireAvant == <<Pct(80), Pct(20)>>

\* the thresholds of state["policies"] once the policy request in progress, if
\* there is one, has made both its writes
PaireApres ==
    << state.policies.scale_up_threshold,
       IF admin.pc = "api_down" THEN admin.scale_down.n
       ELSE IF admin.pc = "reset_down" THEN Pct(20)
       ELSE state.policies.scale_down_threshold >>

\* C37: when a policy request runs while an alert is handled, the pair
\* (scale_up_threshold, scale_down_threshold) determiner_action decides with
\* is the pair of state["policies"] before the request or the pair after it,
\* never one threshold of each.
C37_DecisionFromConsistentPolicy ==
    [][ \A h \in Threads :
          (Quitte(h, "decider") /\ admin.ops <= 1)
          => << loc[h].scale_up_threshold, state.policies.scale_down_threshold >>
                 \in {PaireAvant, PaireApres} ]_vars

====
